---- MODULE Spec2Model ----
(***************************************************************************)
(* Model of kueue's admission core:                                        *)
(*   - pkg/scheduler/flavorassigner (AssignFlavors, fitsResourceQuota),    *)
(*   - pkg/workload (admission / eviction conditions of a Workload),       *)
(*   - the scheduler cycle, cache and queues with PodsReady gating.        *)
(* Quantities are the code's int64 values (CPU in milli-units).            *)
(***************************************************************************)
EXTENDS Integers, Sequences, FiniteSets, TLC

VARIABLES
    fitIn,       \* arguments of one fitsResourceQuota call
    fitOut,      \* its result: [done, mode, borrow, status]
    cq,          \* cache.ClusterQueue snapshot handed to AssignFlavors
    wl,          \* the workload (kueue.Workload spec) handed to AssignFlavors
    resourceFlavors, \* the flavor catalogue handed to AssignFlavors
    assignment,  \* the Assignment returned by AssignFlavors
    apc,         \* "init" before the call of AssignFlavors, "done" after
    obj,         \* a kueue.Workload: its Status.Admission and Status.Conditions
    wInfo,       \* the workload.Info NewInfo returns for obj
    patchOut,    \* the latest ApplyAdmissionStatus: its patch and whether it failed
    clock,       \* the time metav1.Now() returns
    cache,       \* the cache: ClusterQueues with usage and workloads, cohorts
    queues,      \* the queue manager: the pending workloads of each ClusterQueue
    workloads,   \* the Workload objects of the API server, by name
    config,      \* the configuration: waitForPodsReady
    created,     \* the number of workloads created so far
    lastCycle    \* what the latest scheduling cycle nominated, admitted, withheld

assignVars == <<fitIn, fitOut, cq, wl, resourceFlavors, assignment, apc>>

schedVars == <<cache, queues, workloads, config, created, lastCycle>>

vars == <<fitIn, fitOut, cq, wl, resourceFlavors, assignment, apc, obj, wInfo, patchOut,
          clock, cache, queues, workloads, config, created, lastCycle>>

----------------------------------------------------------------------------
(* Bounds of the model *)

MaxQty == 3
MaxNominal == 2
MaxReq == 2
MaxPodSets == 2
MaxTime == 4
MaxClock == 2
podsReadyTimeout == 2
MaxVersion == 3

----------------------------------------------------------------------------
(* FlavorAssignmentMode, ordered from lowest to highest preference *)

NoFit == 0
Preempt == 1
Fit == 2

(* Literal values of the test "past max, but can preempt in ClusterQueue" *)
S6Nominal == 2000
S6BorrowingLimit == 8000
S6Usage == 9000
S6Request == 2000
S6CohortRequestable == 100000

Resources == {"cpu", "memory", "pods"}

\* a Go map lookup m[f][r] of a FlavorResourceQuantities: 0 when a key is missing
Quantity(m, f, r) ==
    IF f \in DOMAIN m THEN (IF r \in DOMAIN m[f] THEN m[f][r] ELSE 0) ELSE 0

NoStatus == [set |-> FALSE, reasons |-> <<>>, err |-> FALSE]

\* a reason that does not name the flavor
ReasonWithoutFlavor(msg, rName, fName, n) == [msg |-> msg, r |-> rName, f |-> "", n |-> n]

Reason(msg, rName, fName, n) == [msg |-> msg, r |-> rName, f |-> fName, n |-> n]

NoCohort == [present |-> FALSE, RequestableResources |-> <<>>, Usage |-> <<>>]

NoLimit == [set |-> FALSE, v |-> 0]

Limit(v) == [set |-> TRUE, v |-> v]

----------------------------------------------------------------------------
(* fitsResourceQuota *)

\* Preempt only for a value strictly below Nominal
fitsBelowNominalMode(val, rQuota) ==
    IF val < rQuota.Nominal THEN Preempt ELSE NoFit

fitsNominalMode(val, rQuota) ==
    IF val <= rQuota.Nominal THEN Preempt ELSE NoFit

\* the limit checked against the request alone
borrowingLimitOfRequest(used, val, rQuota) ==
    rQuota.BorrowingLimit.set /\ val > rQuota.Nominal + rQuota.BorrowingLimit.v

borrowingLimitExceeded(used, val, rQuota) ==
    rQuota.BorrowingLimit.set /\ used + val > rQuota.Nominal + rQuota.BorrowingLimit.v

\* the ClusterQueue's own usage taken for the cohort's
cohortUsedOwn(fName, rName, q, used) == used

cohortUsedOf(fName, rName, q, used) ==
    IF q.Cohort.present THEN Quantity(q.Cohort.Usage, fName, rName) ELSE used

cohortAvailableOf(fName, rName, q, rQuota) ==
    IF q.Cohort.present THEN Quantity(q.Cohort.RequestableResources, fName, rName)
    ELSE rQuota.Nominal

\* the borrow without the clamp at 0
fitBorrowUnclamped(used, val, rQuota) == used + val - rQuota.Nominal

fitBorrow(used, val, rQuota) ==
    IF used + val - rQuota.Nominal < 0 THEN 0 ELSE used + val - rQuota.Nominal

fitsResourceQuota(fName, rName, val, q, rQuota) ==
    LET used == Quantity(q.Usage, fName, rName)
        mode == fitsNominalMode(val, rQuota)
        cohortUsed == cohortUsedOf(fName, rName, q, used)
        cohortAvailable == cohortAvailableOf(fName, rName, q, rQuota)
        lack == cohortUsed + val - cohortAvailable
    IN  IF borrowingLimitExceeded(used, val, rQuota)
        THEN [mode |-> mode, borrow |-> 0,
              status |-> [set |-> TRUE, err |-> FALSE,
                          reasons |-> <<Reason("borrowing limit exceeded", rName, fName, 0)>>]]
        ELSE IF lack <= 0
        THEN [mode |-> Fit, borrow |-> fitBorrow(used, val, rQuota), status |-> NoStatus]
        ELSE [mode |-> mode, borrow |-> 0,
              status |-> [set |-> TRUE, err |-> FALSE,
                          reasons |-> <<
                              IF q.Cohort.present
                              THEN Reason("insufficient unused quota in cohort", rName, fName, lack)
                              ELSE IF mode = NoFit
                              THEN Reason("insufficient quota in ClusterQueue", rName, fName, 0)
                              ELSE Reason("insufficient unused quota", rName, fName, lack) >>]]

----------------------------------------------------------------------------
(* Flavor gates: taints and node affinity *)

NoLabels == [k \in {} |-> ""]

\* the catalogue of TestAssignFlavors
AllResourceFlavors ==
    [n \in {"default", "one", "two", "b_one", "b_two", "tainted"} |->
        [NodeLabels |-> CASE n = "one" -> [k \in {"type"} |-> "one"]
                          [] n = "two" -> [k \in {"type"} |-> "two"]
                          [] n = "b_one" -> [k \in {"b_type"} |-> "one"]
                          [] n = "b_two" -> [k \in {"b_type"} |-> "two"]
                          [] OTHER -> NoLabels,
         NodeTaints |-> IF n = "tainted"
                        THEN <<[Key |-> "instance", Value |-> "spot", Effect |-> "NoSchedule"]>>
                        ELSE <<>>]]

ToleratesTaint(tol, taint) ==
    /\ tol.Effect = "" \/ tol.Effect = taint.Effect
    /\ tol.Key = "" \/ tol.Key = taint.Key
    /\ \/ tol.Operator = "Exists"
       \/ tol.Operator \in {"", "Equal"} /\ tol.Value = taint.Value

\* the filter of the taints narrowed to NoExecute
FindMatchingUntoleratedTaintNoExecute(taints, tolerations) ==
    LET bad == {i \in 1..Len(taints) :
                    /\ taints[i].Effect = "NoExecute"
                    /\ \A tol \in tolerations : ~ToleratesTaint(tol, taints[i])}
    IN  IF bad = {} THEN 0 ELSE CHOOSE i \in bad : \A j \in bad : i <= j

\* index of the first NoSchedule/NoExecute taint no toleration matches, 0 if none
FindMatchingUntoleratedTaint(taints, tolerations) ==
    LET bad == {i \in 1..Len(taints) :
                    /\ taints[i].Effect \in {"NoSchedule", "NoExecute"}
                    /\ \A tol \in tolerations : ~ToleratesTaint(tol, taints[i])}
    IN  IF bad = {} THEN 0 ELSE CHOOSE i \in bad : \A j \in bad : i <= j

\* label keys of the flavors of a resource group
LabelKeys(rg, rfs) ==
    UNION {DOMAIN rfs[rg.Flavors[i].Name].NodeLabels :
              i \in {j \in 1..Len(rg.Flavors) : rg.Flavors[j].Name \in DOMAIN rfs}}

SeqFilterExpr(exprs, allowedKeys) == SelectSeq(exprs, LAMBDA e : e.Key \in allowedKeys)

\* the filtered terms with the terms that become empty left out
RECURSIVE filterTermsDropEmpty(_, _, _)
filterTermsDropEmpty(terms, allowedKeys, acc) ==
    IF terms = <<>> THEN acc
    ELSE LET expCopy == SeqFilterExpr(Head(terms), allowedKeys)
         IN  filterTermsDropEmpty(Tail(terms), allowedKeys,
                 IF Len(expCopy) = 0 THEN acc ELSE Append(acc, expCopy))

\* the filtered terms of the required node affinity; <<>> when some term
\* becomes empty
RECURSIVE filterTerms(_, _, _)
filterTerms(terms, allowedKeys, acc) ==
    IF terms = <<>> THEN acc
    ELSE LET expCopy == SeqFilterExpr(Head(terms), allowedKeys)
         IN  IF Len(expCopy) = 0 THEN <<>>
             ELSE filterTerms(Tail(terms), allowedKeys, Append(acc, expCopy))

flavorSelector(spec, allowedKeys) ==
    [NodeSelector |-> [k \in {x \in DOMAIN spec.NodeSelector : x \in allowedKeys} |->
                          spec.NodeSelector[k]],
     Terms |-> IF spec.Affinity.set THEN filterTerms(spec.Affinity.terms, allowedKeys, <<>>)
               ELSE <<>>]

ExprParseErr(e) == e.Operator \notin {"In", "NotIn", "Exists", "DoesNotExist"}

ExprMatches(e, labels) ==
    CASE e.Operator = "In" -> e.Key \in DOMAIN labels /\ labels[e.Key] \in e.Values
      [] e.Operator = "NotIn" -> ~(e.Key \in DOMAIN labels /\ labels[e.Key] \in e.Values)
      [] e.Operator = "Exists" -> e.Key \in DOMAIN labels
      [] e.Operator = "DoesNotExist" -> e.Key \notin DOMAIN labels
      [] OTHER -> FALSE

TermParseErr(term) == \E i \in 1..Len(term) : ExprParseErr(term[i])

TermMatches(term, labels) ==
    ~TermParseErr(term) /\ \A i \in 1..Len(term) : ExprMatches(term[i], labels)

\* a term that cannot be parsed counted as a term that does not match
SelectorMatchNoError(selector, labels) ==
    [match |-> /\ \A k \in DOMAIN selector.NodeSelector :
                      k \in DOMAIN labels /\ labels[k] = selector.NodeSelector[k]
               /\ \/ selector.Terms = <<>>
                  \/ \E i \in 1..Len(selector.Terms) : TermMatches(selector.Terms[i], labels),
     err |-> FALSE]

\* RequiredNodeAffinity.Match: [match, err]
SelectorMatch(selector, labels) ==
    IF \E k \in DOMAIN selector.NodeSelector :
           ~(k \in DOMAIN labels /\ labels[k] = selector.NodeSelector[k])
    THEN [match |-> FALSE, err |-> FALSE]
    ELSE IF selector.Terms = <<>> THEN [match |-> TRUE, err |-> FALSE]
    ELSE IF \E i \in 1..Len(selector.Terms) : TermMatches(selector.Terms[i], labels)
    THEN [match |-> TRUE, err |-> FALSE]
    ELSE [match |-> FALSE,
          err |-> \E i \in 1..Len(selector.Terms) : TermParseErr(selector.Terms[i])]


----------------------------------------------------------------------------
(* findFlavorForResourceGroup *)

EmptyAssignment == [r \in {} |-> [Name |-> "", Mode |-> NoFit, borrow |-> 0]]

\* the keys of a Go map in the order one iteration visits them
Visit(m, ord) == SelectSeq(ord, LAMBDA r : r \in DOMAIN m)

filterRequestedResources(req, allowList) ==
    [n \in {x \in DOMAIN req : x \in allowList} |-> req[n]]

\* mode of a flavor taken from the resource checked last
lastMode(mode, representativeMode) == mode

\* mode of a flavor: the worst mode seen so far
worstMode(mode, representativeMode) ==
    IF mode < representativeMode THEN mode ELSE representativeMode

\* the loop over the requests of one flavor; stops at the first NoFit
RECURSIVE fitRequests(_, _, _, _, _, _)
fitRequests(todo, flvQuotas, requests, usage, q, acc) ==
    IF todo = <<>> THEN acc
    ELSE LET rName == Head(todo)
             res == fitsResourceQuota(flvQuotas.Name, rName,
                        requests[rName] + Quantity(usage, flvQuotas.Name, rName),
                        q, flvQuotas.Resources[rName])
             reasons == IF res.status.set THEN acc.reasons \o res.status.reasons
                        ELSE acc.reasons
             rep == worstMode(res.mode, acc.mode)
         IN  IF rep = NoFit
             THEN [acc EXCEPT !.mode = rep, !.reasons = reasons]
             ELSE fitRequests(Tail(todo), flvQuotas, requests, usage, q,
                      [assignments |->
                           [r \in DOMAIN acc.assignments \cup {rName} |->
                               IF r = rName
                               THEN [Name |-> flvQuotas.Name, Mode |-> res.mode,
                                     borrow |-> res.borrow]
                               ELSE acc.assignments[r]],
                       mode |-> rep,
                       reasons |-> reasons])

\* a flavor that is no worse replaces the best one so far
betterOrEqualMode(representativeMode, bestAssignmentMode) ==
    representativeMode >= bestAssignmentMode

\* whether a flavor with this representative mode replaces the best one so far
betterMode(representativeMode, bestAssignmentMode) ==
    representativeMode > bestAssignmentMode

\* the loop over the flavors of the group, in declared order
RECURSIVE tryFlavors(_, _, _, _, _, _, _, _, _)
tryFlavors(i, rg, requests, rfs, q, spec, usage, ord, st) ==
    IF i > Len(rg.Flavors)
    THEN [flavors |-> st.best,
          status |-> [set |-> TRUE, reasons |-> st.reasons, err |-> FALSE]]
    ELSE LET flvQuotas == rg.Flavors[i]
             name == flvQuotas.Name
         IN  IF name \notin DOMAIN rfs
             THEN tryFlavors(i + 1, rg, requests, rfs, q, spec, usage, ord,
                      [st EXCEPT !.reasons = Append(@, Reason("flavor not found", "", name, 0))])
             ELSE IF FindMatchingUntoleratedTaint(rfs[name].NodeTaints, spec.Tolerations) # 0
             THEN tryFlavors(i + 1, rg, requests, rfs, q, spec, usage, ord,
                      [st EXCEPT !.reasons = Append(@, Reason("untolerated taint", "", name, 0))])
             ELSE LET m == SelectorMatch(flavorSelector(spec, LabelKeys(rg, rfs)),
                                         rfs[name].NodeLabels)
                  IN  IF m.err
                      THEN [flavors |-> EmptyAssignment,
                            status |-> [set |-> TRUE, reasons |-> st.reasons, err |-> TRUE]]
                      ELSE IF ~m.match
                      THEN tryFlavors(i + 1, rg, requests, rfs, q, spec, usage, ord,
                               [st EXCEPT !.reasons =
                                   Append(@, Reason("doesn't match node affinity", "", name, 0))])
                      ELSE LET f == fitRequests(Visit(requests, ord), flvQuotas, requests,
                                        usage, q,
                                        [assignments |-> EmptyAssignment, mode |-> Fit,
                                         reasons |-> st.reasons])
                           IN  IF betterMode(f.mode, st.bestMode)
                               THEN IF f.mode = Fit
                                    THEN [flavors |-> f.assignments, status |-> NoStatus]
                                    ELSE tryFlavors(i + 1, rg, requests, rfs, q, spec, usage, ord,
                                             [best |-> f.assignments, bestMode |-> f.mode,
                                              reasons |-> f.reasons])
                               ELSE tryFlavors(i + 1, rg, requests, rfs, q, spec, usage, ord,
                                        [st EXCEPT !.reasons = f.reasons])

findFlavorForResourceGroup(usage, rg, requests, rfs, q, spec, ord) ==
    tryFlavors(1, rg, filterRequestedResources(requests, rg.CoveredResources), rfs, q,
               spec, usage, ord,
               [best |-> EmptyAssignment, bestMode |-> NoFit, reasons |-> <<>>])


----------------------------------------------------------------------------
(* workload.Info and AssignFlavors *)

\* resource.Quantity built by workload.ResourceQuantity: milli-units and
\* decimal format for cpu, binary format for memory-like resources
ResourceQuantity(name, v) ==
    CASE name = "cpu" -> [Scale |-> "milli", Value |-> v, Format |-> "DecimalSI"]
      [] name \in {"memory", "ephemeral-storage"} ->
            [Scale |-> "unit", Value |-> v, Format |-> "BinarySI"]
      [] OTHER -> [Scale |-> "unit", Value |-> v, Format |-> "DecimalSI"]

ToResourceList(req) == [k \in DOMAIN req |-> ResourceQuantity(k, req[k])]

scale(req, f) == [name \in DOMAIN req |-> req[name] * f]

totalRequestsFromPodSets(w) ==
    [i \in 1..Len(w.PodSets) |->
        [Name |-> w.PodSets[i].Name,
         Requests |-> scale(w.PodSets[i].Requests, w.PodSets[i].Count)]]

\* index of the resource group covering a resource, 0 if there is none
RGByResource(q, rName) ==
    LET covering == {i \in 1..Len(q.ResourceGroups) :
                        rName \in q.ResourceGroups[i].CoveredResources}
    IN  IF covering = {} THEN 0 ELSE CHOOSE i \in covering : \A j \in covering : i <= j

\* the flavors merged, the status of the group lost
psaAppendFlavorsOnly(psa, flavors, status) ==
    [psa EXCEPT
        !.Flavors = [r \in DOMAIN psa.Flavors \cup DOMAIN flavors |->
                        IF r \in DOMAIN flavors THEN flavors[r] ELSE psa.Flavors[r]]]

\* PodSetAssignment.append
psaAppend(psa, flavors, status) ==
    [psa EXCEPT
        !.Flavors = [r \in DOMAIN psa.Flavors \cup DOMAIN flavors |->
                        IF r \in DOMAIN flavors THEN flavors[r] ELSE psa.Flavors[r]],
        !.Status = IF ~psa.Status.set THEN status
                   ELSE IF status.set
                   THEN [psa.Status EXCEPT !.reasons = @ \o status.reasons]
                   ELSE psa.Status]

\* the loop over the requested resources leaving, when it breaks, the
\* flavors assigned before in place
RECURSIVE assignResourcesKeeping(_, _, _, _, _, _, _, _)
assignResourcesKeeping(todo, psa, requests, usage, rfs, q, spec, ord) ==
    IF todo = <<>> THEN psa
    ELSE LET resName == Head(todo)
             g == RGByResource(q, resName)
         IN  IF resName \in DOMAIN psa.Flavors
             THEN assignResourcesKeeping(Tail(todo), psa, requests, usage, rfs, q, spec, ord)
             ELSE IF g = 0
             THEN [psa EXCEPT !.Status = [set |-> TRUE, err |-> FALSE,
                                          reasons |-> <<Reason("resource unavailable in ClusterQueue",
                                                               resName, "", 0)>>]]
             ELSE LET res == findFlavorForResourceGroup(usage, q.ResourceGroups[g], requests,
                                                        rfs, q, spec, ord)
                  IN  IF res.status.err \/ DOMAIN res.flavors = {}
                      THEN [psa EXCEPT !.Status = res.status]
                      ELSE assignResourcesKeeping(Tail(todo),
                                                  psaAppend(psa, res.flavors, res.status),
                                                  requests, usage, rfs, q, spec, ord)

\* the loop over the requested resources of one pod set
RECURSIVE assignResources(_, _, _, _, _, _, _, _)
assignResources(todo, psa, requests, usage, rfs, q, spec, ord) ==
    IF todo = <<>> THEN psa
    ELSE LET resName == Head(todo)
             g == RGByResource(q, resName)
         IN  IF resName \in DOMAIN psa.Flavors
             THEN assignResources(Tail(todo), psa, requests, usage, rfs, q, spec, ord)
             ELSE IF g = 0
             THEN [psa EXCEPT !.Flavors = EmptyAssignment,
                              !.Status = [set |-> TRUE, err |-> FALSE,
                                          reasons |-> <<Reason("resource unavailable in ClusterQueue",
                                                               resName, "", 0)>>]]
             ELSE LET res == findFlavorForResourceGroup(usage, q.ResourceGroups[g], requests,
                                                        rfs, q, spec, ord)
                  IN  IF res.status.err \/ DOMAIN res.flavors = {}
                      THEN [psa EXCEPT !.Flavors = EmptyAssignment, !.Status = res.status]
                      ELSE assignResources(Tail(todo), psaAppend(psa, res.flavors, res.status),
                                           requests, usage, rfs, q, spec, ord)

SetQuantity(m, f, r, v) ==
    [g \in DOMAIN m \cup {f} |->
        IF g = f
        THEN [x \in (IF f \in DOMAIN m THEN DOMAIN m[f] ELSE {}) \cup {r} |->
                 IF x = r THEN v ELSE m[f][x]]
        ELSE m[g]]

NoQuantities == [f \in {} |-> [r \in {} |-> 0]]

\* the usage added for the flavors in mode Fit only
RECURSIVE recordFitFlavors(_, _, _, _)
recordFitFlavors(rs, a, requests, flavors) ==
    IF rs = {} THEN a
    ELSE LET resource == CHOOSE r \in rs : TRUE
             fl == flavors[resource]
             tb == IF fl.borrow > 0
                   THEN SetQuantity(a.TotalBorrow, fl.Name, resource, fl.borrow)
                   ELSE a.TotalBorrow
             us == IF fl.Mode = Fit
                   THEN SetQuantity(a.usage, fl.Name, resource,
                            Quantity(a.usage, fl.Name, resource) + requests[resource])
                   ELSE a.usage
         IN  recordFitFlavors(rs \ {resource}, [a EXCEPT !.TotalBorrow = tb, !.usage = us],
                              requests, flavors)

\* Assignment.append: the borrow of a flavor is overwritten, the usage added
RECURSIVE recordFlavors(_, _, _, _)
recordFlavors(rs, a, requests, flavors) ==
    IF rs = {} THEN a
    ELSE LET resource == CHOOSE r \in rs : TRUE
             fl == flavors[resource]
             tb == IF fl.borrow > 0
                   THEN SetQuantity(a.TotalBorrow, fl.Name, resource, fl.borrow)
                   ELSE a.TotalBorrow
             us == SetQuantity(a.usage, fl.Name, resource,
                       Quantity(a.usage, fl.Name, resource) + requests[resource])
         IN  recordFlavors(rs \ {resource}, [a EXCEPT !.TotalBorrow = tb, !.usage = us],
                           requests, flavors)

\* the borrow of a pod set added to the borrow recorded so far
RECURSIVE accumulateFlavors(_, _, _, _)
accumulateFlavors(rs, a, requests, flavors) ==
    IF rs = {} THEN a
    ELSE LET resource == CHOOSE r \in rs : TRUE
             fl == flavors[resource]
             tb == IF fl.borrow > 0
                   THEN SetQuantity(a.TotalBorrow, fl.Name, resource,
                            Quantity(a.TotalBorrow, fl.Name, resource) + fl.borrow)
                   ELSE a.TotalBorrow
             us == SetQuantity(a.usage, fl.Name, resource,
                       Quantity(a.usage, fl.Name, resource) + requests[resource])
         IN  accumulateFlavors(rs \ {resource}, [a EXCEPT !.TotalBorrow = tb, !.usage = us],
                               requests, flavors)

assignmentAppendAccumulating(a, requests, psa) ==
    accumulateFlavors(DOMAIN psa.Flavors, [a EXCEPT !.PodSets = Append(@, psa)],
                      requests, psa.Flavors)

assignmentAppend(a, requests, psa) ==
    recordFlavors(DOMAIN psa.Flavors, [a EXCEPT !.PodSets = Append(@, psa)],
                  requests, psa.Flavors)

\* the requests of pod set i as the workload states them
podSetRequestsPlain(info, w, q, i) == info[i].Requests

\* the requests of pod set i, with the pods pseudo-resource when the
\* ClusterQueue declares it
podSetRequests(info, w, q, i) ==
    IF RGByResource(q, "pods") # 0
    THEN [r \in DOMAIN info[i].Requests \cup {"pods"} |->
             IF r = "pods" THEN w.PodSets[i].Count ELSE info[i].Requests[r]]
    ELSE info[i].Requests

\* the loop over the pod sets going on after a pod set without flavors
RECURSIVE assignAllPodSets(_, _, _, _, _, _, _)
assignAllPodSets(i, a, info, w, rfs, q, ord) ==
    IF i > Len(info)
    THEN a
    ELSE LET requests == podSetRequests(info, w, q, i)
             psa0 == [Name |-> info[i].Name, Flavors |-> EmptyAssignment,
                      Status |-> NoStatus, Requests |-> ToResourceList(requests)]
             psa == assignResources(Visit(requests, ord.outer), psa0, requests, a.usage,
                                    rfs, q, w.PodSets[i].Spec, ord.inner)
         IN  assignAllPodSets(i + 1, assignmentAppend(a, requests, psa), info, w, rfs, q, ord)

RECURSIVE assignPodSets(_, _, _, _, _, _, _)
assignPodSets(i, a, info, w, rfs, q, ord) ==
    IF i > Len(info)
    THEN a
    ELSE LET requests == podSetRequests(info, w, q, i)
             psa0 == [Name |-> info[i].Name, Flavors |-> EmptyAssignment,
                      Status |-> NoStatus, Requests |-> ToResourceList(requests)]
             psa == assignResources(Visit(requests, ord.outer), psa0, requests, a.usage,
                                    rfs, q, w.PodSets[i].Spec, ord.inner)
             a1 == assignmentAppend(a, requests, psa)
         IN  IF psa.Status.err \/ (DOMAIN requests # {} /\ DOMAIN psa.Flavors = {})
             THEN [a1 EXCEPT !.TotalBorrow = NoQuantities]
             ELSE assignPodSets(i + 1, a1, info, w, rfs, q, ord)

AssignFlavors(w, rfs, q, ord) ==
    assignPodSets(1, [PodSets |-> <<>>, TotalBorrow |-> NoQuantities,
                      usage |-> NoQuantities],
                  totalRequestsFromPodSets(w), w, rfs, q, ord)

\* PodSetAssignment.RepresentativeMode
RECURSIVE minMode(_, _, _)
minMode(rs, flavors, mode) ==
    IF rs = {} THEN mode
    ELSE LET r == CHOOSE x \in rs : TRUE
         IN  minMode(rs \ {r}, flavors,
                     IF flavors[r].Mode < mode THEN flavors[r].Mode ELSE mode)

psRepresentativeMode(psa) ==
    IF ~psa.Status.set THEN Fit
    ELSE IF DOMAIN psa.Flavors = {} THEN NoFit
    ELSE minMode(DOMAIN psa.Flavors, psa.Flavors, Fit)

\* Assignment.RepresentativeMode
RECURSIVE worstPodSet(_, _, _)
worstPodSet(i, podSets, mode) ==
    IF i > Len(podSets) THEN mode
    ELSE LET psMode == psRepresentativeMode(podSets[i])
         IN  worstPodSet(i + 1, podSets, IF psMode < mode THEN psMode ELSE mode)

RepresentativeMode(a) ==
    IF Len(a.PodSets) = 0 THEN NoFit ELSE worstPodSet(1, a.PodSets, Fit)

\* Assignment.Message: the error of the first pod set in error; otherwise,
\* for every pod set with a status, in order, its name and its reasons, which
\* are sorted before they are joined and so kept as a bag
Message(a) ==
    LET errors == {i \in 1..Len(a.PodSets) : a.PodSets[i].Status.set /\ a.PodSets[i].Status.err}
        first == CHOOSE i \in errors : \A j \in errors : i <= j
        reported == SelectSeq(a.PodSets, LAMBDA ps : ps.Status.set)
        bag(rs) == [x \in {rs[k] : k \in DOMAIN rs} |->
                       Cardinality({k \in DOMAIN rs : rs[k] = x})]
    IN  IF errors # {}
        THEN [text |-> "failed to assign flavors to pod set",
              parts |-> <<[Name |-> a.PodSets[first].Name, err |-> TRUE]>>]
        ELSE [text |-> "couldn't assign flavors to pod set",
              parts |-> [k \in 1..Len(reported) |->
                            [Name |-> reported[k].Name, err |-> FALSE,
                             reasons |-> bag(reported[k].Status.reasons)]]]


----------------------------------------------------------------------------
(* pkg/workload: admission and conditions of a Workload *)

WorkloadAdmitted == "Admitted"
WorkloadEvicted == "Evicted"
WorkloadPodsReady == "PodsReady"
WorkloadEvictedByPodsReadyTimeout == "PodsReadyTimeout"
WorkloadEvictedByPreemption == "Preempted"

NoAdmission == [set |-> FALSE, ClusterQueue |-> "", PodSetAssignments |-> <<>>]

\* no call of ApplyAdmissionStatus yet
NoPatch == [done |-> FALSE]

\* no Info computed yet
NoInfo == [ClusterQueue |-> "", TotalRequests |-> <<>>, done |-> FALSE]

Condition(type, status, reason, time) ==
    [Type |-> type, Status |-> status, Reason |-> reason, LastTransitionTime |-> time]

\* apimeta.FindStatusCondition: index of the condition of a type, 0 if absent
FindStatusCondition(conditions, type) ==
    LET found == {i \in 1..Len(conditions) : conditions[i].Type = type}
    IN  IF found = {} THEN 0 ELSE CHOOSE i \in found : \A j \in found : i <= j

\* a condition of the type counted whatever its status
IsStatusConditionPresent(conditions, type) ==
    \E i \in 1..Len(conditions) : conditions[i].Type = type

IsStatusConditionTrue(conditions, type) ==
    \E i \in 1..Len(conditions) : conditions[i].Type = type /\ conditions[i].Status = "True"

\* apimeta.SetStatusCondition: a new condition is appended; an existing one
\* takes the new transition time only when its status changes
SetStatusCondition(conditions, new) ==
    LET i == FindStatusCondition(conditions, new.Type)
    IN  IF i = 0 THEN Append(conditions, new)
        ELSE [conditions EXCEPT
                 ![i] = [Type |-> new.Type, Status |-> new.Status, Reason |-> new.Reason,
                         LastTransitionTime |->
                             IF conditions[i].Status # new.Status
                             THEN new.LastTransitionTime
                             ELSE conditions[i].LastTransitionTime]]

\* the admission is cleared without touching the conditions
UnsetAdmissionOnly(w, reason, t) == [w EXCEPT !.Admission = NoAdmission]

UnsetAdmissionWithCondition(w, reason, t) ==
    [w EXCEPT
        !.Conditions = SetStatusCondition(@, Condition(WorkloadAdmitted, "False", reason, t)),
        !.Admission = NoAdmission]

\* the Evicted condition left as it is
keepEvicted(conditions, t) == conditions

\* the Evicted condition, when present, set to False
resetEvicted(conditions, t) ==
    LET i == FindStatusCondition(conditions, WorkloadEvicted)
    IN  IF i = 0 THEN conditions
        ELSE [conditions EXCEPT ![i].Status = "False", ![i].LastTransitionTime = t]

\* the admission recorded without the Admitted condition
SetAdmissionOnly(w, admission, t) == [w EXCEPT !.Admission = admission]

SetAdmission(w, admission, t) ==
    [w EXCEPT
        !.Admission = admission,
        !.Conditions = resetEvicted(
            SetStatusCondition(@, Condition(WorkloadAdmitted, "True", "Admitted", t)), t)]

SetEvictedCondition(w, reason, t) ==
    [w EXCEPT
        !.Conditions = SetStatusCondition(@, Condition(WorkloadEvicted, "True", reason, t))]

\* the creation time, whatever the conditions
GetCreationTimestamp(w) == w.CreationTimestamp

\* the transition time of an Evicted=True condition of any reason
GetQueueOrderTimestampAnyReason(w) ==
    LET i == FindStatusCondition(w.Conditions, WorkloadEvicted)
    IN  IF i # 0 /\ w.Conditions[i].Status = "True"
        THEN w.Conditions[i].LastTransitionTime
        ELSE w.CreationTimestamp

GetQueueOrderTimestamp(w) ==
    LET i == FindStatusCondition(w.Conditions, WorkloadEvicted)
    IN  IF i # 0 /\ w.Conditions[i].Status = "True"
               /\ w.Conditions[i].Reason = WorkloadEvictedByPodsReadyTimeout
        THEN w.Conditions[i].LastTransitionTime
        ELSE w.CreationTimestamp

IsAdmitted(w) == IsStatusConditionTrue(w.Conditions, WorkloadAdmitted)

NewWorkload(t) ==
    [CreationTimestamp |-> t, Admission |-> NoAdmission, Conditions |-> <<>>]

AdmissionTo(name) == [set |-> TRUE, ClusterQueue |-> name, PodSetAssignments |-> <<>>]

WorkloadIdle ==
    /\ obj = NewWorkload(0)
    /\ wInfo = NoInfo
    /\ patchOut = NoPatch
    /\ clock = 0

----------------------------------------------------------------------------
(* pkg/workload: the patch of the admission status *)

admissionManagedConditions == <<WorkloadAdmitted, WorkloadEvicted>>

\* metav1.ObjectMeta.ResourceVersion left empty
NoResourceVersion == 0

\* BaseSSAWorkload: only the fields that identify the object
BaseSSAWorkload(w) ==
    [UID |-> w.UID, Name |-> w.Name, Namespace |-> w.Namespace,
     Generation |-> w.Generation,
     APIVersion |-> IF w.APIVersion = "" THEN "kueue.x-k8s.io/v1beta1" ELSE w.APIVersion,
     Kind |-> IF w.Kind = "" THEN "Workload" ELSE w.Kind,
     ResourceVersion |-> NoResourceVersion,
     Admission |-> NoAdmission,
     Conditions |-> <<>>]

\* the conditions of the given types that the workload carries, in the order
\* of the types
RECURSIVE existingConditions(_, _)
existingConditions(w, names) ==
    IF names = <<>> THEN <<>>
    ELSE LET i == FindStatusCondition(w.Conditions, Head(names))
         IN  (IF i = 0 THEN <<>> ELSE <<w.Conditions[i]>>)
                 \o existingConditions(w, Tail(names))

\* the patch carrying every condition of the workload
admissionPatchAllConditions(w) ==
    [BaseSSAWorkload(w) EXCEPT !.Admission = w.Admission, !.Conditions = w.Conditions]

admissionPatch(w) ==
    [BaseSSAWorkload(w) EXCEPT
        !.Admission = w.Admission,
        !.Conditions = existingConditions(w, admissionManagedConditions)]

\* the patch ApplyAdmissionStatus sends
ApplyAdmissionStatus(w, strict) ==
    [admissionPatch(w) EXCEPT
        !.ResourceVersion = IF strict THEN w.ResourceVersion ELSE NoResourceVersion]

\* the types of a list of conditions
ConditionTypes(conditions) == {conditions[i].Type : i \in 1..Len(conditions)}

RECURSIVE mergeConditions(_, _)
mergeConditions(conditions, applied) ==
    IF applied = <<>> THEN conditions
    ELSE LET i == FindStatusCondition(conditions, Head(applied).Type)
         IN  mergeConditions(IF i = 0 THEN Append(conditions, Head(applied))
                             ELSE [conditions EXCEPT ![i] = Head(applied)],
                             Tail(applied))

\* Status().Patch with client.Apply and the field owner of the admission: a
\* patch that names a resourceVersion or a UID other than the stored one is
\* rejected; otherwise the admission and the conditions of the patch replace
\* the stored ones of their types, the conditions this owner applied before
\* and now leaves out are removed, and all other conditions stay
ServerSideApply(stored, patch) ==
    IF \/ patch.UID # stored.UID
       \/ patch.ResourceVersion # NoResourceVersion
              /\ patch.ResourceVersion # stored.ResourceVersion
    THEN [err |-> TRUE, obj |-> stored]
    ELSE LET dropped == stored.managed \ ConditionTypes(patch.Conditions)
             kept == SelectSeq(stored.Conditions, LAMBDA c : c.Type \notin dropped)
             merged == [stored EXCEPT
                           !.Admission = patch.Admission,
                           !.Conditions = mergeConditions(kept, patch.Conditions),
                           !.managed = ConditionTypes(patch.Conditions)]
         IN  [err |-> FALSE,
              obj |-> IF merged = stored THEN stored
                      ELSE [merged EXCEPT !.ResourceVersion = stored.ResourceVersion + 1]]

----------------------------------------------------------------------------
(* Inputs of the flavor assigner *)

Quota(nominal, limit) == [Nominal |-> nominal, BorrowingLimit |-> limit]

FlavorQuotas(name, rs, cpu, limit, mem) ==
    [Name |-> name,
     Resources |-> [r \in rs |-> IF r = "cpu" THEN Quota(cpu, limit) ELSE Quota(mem, NoLimit)]]

\* the resource groups of a ClusterQueue: one group for cpu and memory, one
\* group each, or a group for cpu alone
ResourceGroupsOf(shape, n1, n2, limit) ==
    CASE shape = "one group" ->
            <<[CoveredResources |-> {"cpu", "memory"},
               Flavors |-> <<FlavorQuotas("one", {"cpu", "memory"}, n1, limit, 1),
                             FlavorQuotas("two", {"cpu", "memory"}, n2, NoLimit, 1)>>]>>
      [] shape = "two groups" ->
            <<[CoveredResources |-> {"cpu"},
               Flavors |-> <<FlavorQuotas("one", {"cpu"}, n1, limit, 0),
                             FlavorQuotas("two", {"cpu"}, n2, NoLimit, 0)>>],
              [CoveredResources |-> {"memory"},
               Flavors |-> <<FlavorQuotas("b_one", {"memory"}, 0, NoLimit, 1),
                             FlavorQuotas("b_two", {"memory"}, 0, NoLimit, 1)>>]>>
      [] OTHER ->
            <<[CoveredResources |-> {"cpu"},
               Flavors |-> <<FlavorQuotas("one", {"cpu"}, n1, limit, 0),
                             FlavorQuotas("two", {"cpu"}, n2, NoLimit, 0)>>]>>

\* the nominal quotas of a list of resource groups, as FlavorResourceQuantities
NominalOf(rgs) ==
    LET fs == {<<i, j>> \in (1..Len(rgs)) \X (1..2) : j <= Len(rgs[i].Flavors)}
    IN  [f \in {rgs[p[1]].Flavors[p[2]].Name : p \in fs} |->
            LET p == CHOOSE x \in fs : rgs[x[1]].Flavors[x[2]].Name = f
                fq == rgs[p[1]].Flavors[p[2]]
            IN  [r \in DOMAIN fq.Resources |-> fq.Resources[r].Nominal]]

AddQuantity(m, f, r, v) == SetQuantity(m, f, r, Quantity(m, f, r) + v)

Plus(m, v) == [f \in DOMAIN m |-> [r \in DOMAIN m[f] |-> m[f][r] + v]]

\* a cohort whose other members bring `extra` of nominal quota for every
\* flavor and resource and use `other` of flavor one's cpu
CohortOf(rgs, usage, extra, other) ==
    [present |-> TRUE,
     RequestableResources |-> Plus(NominalOf(rgs), extra),
     Usage |-> AddQuantity(usage, "one", "cpu", other)]

ClusterQueueOf(shape, n1, n2, limit, used, cohort) ==
    LET rgs == ResourceGroupsOf(shape, n1, n2, limit)
        usage == IF used = 0 THEN NoQuantities
                 ELSE SetQuantity(NoQuantities, "one", "cpu", used)
    IN  [ResourceGroups |-> rgs,
         Usage |-> usage,
         Cohort |-> IF cohort.present
                    THEN CohortOf(rgs, usage, cohort.extra, cohort.other)
                    ELSE NoCohort]

Limits == {NoLimit} \cup {Limit(v) : v \in 0..1}

CohortChoices ==
    {[present |-> FALSE, extra |-> 0, other |-> 0]}
        \cup {[present |-> TRUE, extra |-> e, other |-> o] : e \in {0, MaxReq}, o \in 0..1}

AssignClusterQueues ==
    {ClusterQueueOf(shape, n1, n2, limit, used, cohort) :
        shape \in {"one group", "two groups", "cpu only"},
        n1 \in 0..MaxNominal, n2 \in {0, MaxNominal},
        limit \in Limits, used \in 0..1, cohort \in CohortChoices}

PlainSpec ==
    [Tolerations |-> {}, NodeSelector |-> NoLabels, Affinity |-> [set |-> FALSE, terms |-> <<>>]]

NoRequests == [r \in {} |-> 0]

RequestProfiles ==
    {NoRequests,
     [r \in {"cpu"} |-> 1],
     [r \in {"cpu"} |-> MaxReq],
     [r \in {"memory"} |-> 1],
     [r \in {"cpu", "memory"} |-> 1]}

PodSetNames == <<"driver", "worker", "extra", "more">>

WorkloadOf(reqs) ==
    [PodSets |-> [i \in 1..Len(reqs) |->
                     [Name |-> PodSetNames[i], Count |-> 1, Requests |-> reqs[i],
                      Spec |-> PlainSpec]]]

AssignWorkloads ==
    UNION {{WorkloadOf(reqs) : reqs \in [1..n -> RequestProfiles]} : n \in 1..MaxPodSets}

\* the resources AssignFlavors iterates over: those the pod sets request and
\* the pods pseudo-resource when the ClusterQueue declares it
IteratedResources(w, q) ==
    UNION {DOMAIN w.PodSets[i].Requests : i \in 1..Len(w.PodSets)}
        \cup (IF \E g \in 1..Len(q.ResourceGroups) :
                     "pods" \in q.ResourceGroups[g].CoveredResources
              THEN {"pods"} ELSE {})

\* the orders in which an iteration over a Go map may visit the resources
ResourceOrders(rs) ==
    {o \in [1..Cardinality(rs) -> rs] : \A i, j \in DOMAIN o : i # j => o[i] # o[j]}

\* the order of the loop of AssignFlavors and that of findFlavorForResourceGroup
Orders(w, q) ==
    {[outer |-> o, inner |-> i] : o \in ResourceOrders(IteratedResources(w, q)),
                                  i \in ResourceOrders(IteratedResources(w, q))}

NoAssignment == [PodSets |-> <<>>, TotalBorrow |-> NoQuantities, usage |-> NoQuantities]

----------------------------------------------------------------------------
(* workload.Info of an admitted workload *)

\* resource.Quantity.MilliValue and Value (Value rounds up)
MilliValue(q) == IF q.Scale = "milli" THEN q.Value ELSE q.Value * 1000

ScaledValue(q) == IF q.Scale = "milli" THEN (q.Value + 999) \div 1000 ELSE q.Value

\* the quantity read in absolute units whatever the resource
ResourceValueAbsolute(name, q) == ScaledValue(q)

ResourceValue(name, q) == IF name = "cpu" THEN MilliValue(q) ELSE ScaledValue(q)

newRequests(rl) == [name \in DOMAIN rl |-> ResourceValue(name, rl[name])]

\* the recorded usage multiplied by the count of the pod set of the spec
totalRequestsFromAdmissionScaled(w) ==
    [i \in 1..Len(w.Admission.PodSetAssignments) |->
        [Name |-> w.Admission.PodSetAssignments[i].Name,
         Flavors |-> w.Admission.PodSetAssignments[i].Flavors,
         Requests |-> scale(newRequests(w.Admission.PodSetAssignments[i].ResourceUsage),
                            IF i <= Len(w.PodSets) THEN w.PodSets[i].Count ELSE 1)]]

totalRequestsFromAdmission(w) ==
    [i \in 1..Len(w.Admission.PodSetAssignments) |->
        [Name |-> w.Admission.PodSetAssignments[i].Name,
         Flavors |-> w.Admission.PodSetAssignments[i].Flavors,
         Requests |-> newRequests(w.Admission.PodSetAssignments[i].ResourceUsage)]]

NewInfo(w) ==
    IF w.Admission.set
    THEN [ClusterQueue |-> w.Admission.ClusterQueue,
          TotalRequests |-> totalRequestsFromAdmission(w)]
    ELSE [ClusterQueue |-> "", TotalRequests |-> totalRequestsFromPodSets(w)]

\* PodSetAssignment.toAPI and Assignment.ToAPI
toAPI(psa) ==
    [Name |-> psa.Name,
     Flavors |-> [res \in DOMAIN psa.Flavors |-> psa.Flavors[res].Name],
     ResourceUsage |-> psa.Requests]

ToAPI(a) == [i \in 1..Len(a.PodSets) |-> toAPI(a.PodSets[i])]

----------------------------------------------------------------------------
(* Cache: ClusterQueues, cohorts and the usage of the admitted workloads *)

StrictFIFO == "StrictFIFO"
BestEffortFIFO == "BestEffortFIFO"

FlavorsOfMaps(m, u) == DOMAIN m \cup DOMAIN u

ResourcesOfMaps(m, u, f) ==
    (IF f \in DOMAIN m THEN DOMAIN m[f] ELSE {}) \cup (IF f \in DOMAIN u THEN DOMAIN u[f] ELSE {})

AddUsage(m, u) ==
    [f \in FlavorsOfMaps(m, u) |->
        [r \in ResourcesOfMaps(m, u, f) |-> Quantity(m, f, r) + Quantity(u, f, r)]]

\* the usage left as it is
usageKept(m, u) == m

SubUsage(m, u) ==
    [f \in FlavorsOfMaps(m, u) |->
        [r \in ResourcesOfMaps(m, u, f) |-> Quantity(m, f, r) - Quantity(u, f, r)]]

\* the usage of one pod set of an Info: its requests on the flavors assigned
PodSetUsage(ps) ==
    LET rs == {r \in DOMAIN ps.Requests : r \in DOMAIN ps.Flavors}
    IN  [f \in {ps.Flavors[r] : r \in rs} |->
            [r \in {x \in rs : ps.Flavors[x] = f} |-> ps.Requests[r]]]

\* the usage of an Info, by flavor and resource
RECURSIVE InfoUsage(_, _)
InfoUsage(totalRequests, i) ==
    IF i > Len(totalRequests) THEN NoQuantities
    ELSE AddUsage(PodSetUsage(totalRequests[i]), InfoUsage(totalRequests, i + 1))

EmptyCache == [ClusterQueues |-> [c \in {} |-> 0], Cohorts |-> [c \in {} |-> 0]]

NoWorkloads == [k \in {} |-> 0]

\* the sum of the quantities a function assigns to the members of a set
RECURSIVE SumOver(_, _)
SumOver(S, m) ==
    IF S = {} THEN NoQuantities
    ELSE LET x == CHOOSE y \in S : TRUE
         IN  AddUsage(m[x], SumOver(S \ {x}, m))

\* a cohort with its aggregates summed over the member ClusterQueues
cohortOfMembers(cqs, name) ==
    LET members == {c \in DOMAIN cqs : cqs[c].Cohort = name}
    IN  [Members |-> members,
         RequestableResources |-> SumOver(members, [c \in members |-> NominalOf(cqs[c].ResourceGroups)]),
         Usage |-> SumOver(members, [c \in members |-> cqs[c].Usage])]

\* cohort reconciliation: the cohorts of `names` are recomputed from their
\* members; a cohort without members is dropped
reconcileCohorts(cqs, cohorts, names) ==
    LET live == {cqs[c].Cohort : c \in DOMAIN cqs} \ {""}
    IN  [n \in (DOMAIN cohorts \cup names) \cap live |->
            IF n \in names THEN cohortOfMembers(cqs, n) ELSE cohorts[n]]

AddOrUpdateClusterQueue(ch, name, cohort, strategy, rgs) ==
    LET known == name \in DOMAIN ch.ClusterQueues
        new == [Cohort |-> cohort, QueueingStrategy |-> strategy, ResourceGroups |-> rgs,
                Usage |-> IF known THEN ch.ClusterQueues[name].Usage ELSE NoQuantities,
                Workloads |-> IF known THEN ch.ClusterQueues[name].Workloads ELSE NoWorkloads]
        cqs == [c \in DOMAIN ch.ClusterQueues \cup {name} |->
                   IF c = name THEN new ELSE ch.ClusterQueues[c]]
        touched == ({cohort} \cup (IF known THEN {ch.ClusterQueues[name].Cohort} ELSE {})) \ {""}
    IN  [ClusterQueues |-> cqs, Cohorts |-> reconcileCohorts(cqs, ch.Cohorts, touched)]

DeleteClusterQueue(ch, name) ==
    IF name \notin DOMAIN ch.ClusterQueues THEN ch
    ELSE LET cqs == [c \in DOMAIN ch.ClusterQueues \ {name} |-> ch.ClusterQueues[c]]
         IN  [ClusterQueues |-> cqs,
              Cohorts |-> reconcileCohorts(cqs, ch.Cohorts, {ch.ClusterQueues[name].Cohort} \ {""})]

\* the ClusterQueue holding a workload, "" if none does
ClusterQueueOfWorkload(ch, key) ==
    IF \E c \in DOMAIN ch.ClusterQueues : key \in DOMAIN ch.ClusterQueues[c].Workloads
    THEN CHOOSE c \in DOMAIN ch.ClusterQueues : key \in DOMAIN ch.ClusterQueues[c].Workloads
    ELSE ""

\* the usage of a cohort left as it is
cohortUsageKept(cohorts, name, usage, sign) == cohorts

\* the usage of a workload added to (sign 1) or taken from (sign -1) a cohort
cohortUsageAdjusted(cohorts, name, usage, sign) ==
    IF name \notin DOMAIN cohorts THEN cohorts
    ELSE [cohorts EXCEPT ![name].Usage =
             IF sign = 1 THEN AddUsage(@, usage) ELSE SubUsage(@, usage)]

\* the workload added with its usage counted twice
cacheAddWorkloadTwice(ch, key, info) ==
    IF info.ClusterQueue \notin DOMAIN ch.ClusterQueues THEN ch
    ELSE LET c == info.ClusterQueue
             usage == AddUsage(InfoUsage(info.TotalRequests, 1),
                               InfoUsage(info.TotalRequests, 1))
         IN  [ClusterQueues |->
                  [ch.ClusterQueues EXCEPT
                      ![c].Usage = AddUsage(@, usage),
                      ![c].Workloads = [k \in DOMAIN @ \cup {key} |->
                                           IF k = key THEN info ELSE @[k]]],
              Cohorts |-> cohortUsageAdjusted(ch.Cohorts, ch.ClusterQueues[c].Cohort, usage, 1)]

cacheAddWorkload(ch, key, info) ==
    IF info.ClusterQueue \notin DOMAIN ch.ClusterQueues THEN ch
    ELSE LET c == info.ClusterQueue
             usage == InfoUsage(info.TotalRequests, 1)
         IN  [ClusterQueues |->
                  [ch.ClusterQueues EXCEPT
                      ![c].Usage = AddUsage(@, usage),
                      ![c].Workloads = [k \in DOMAIN @ \cup {key} |->
                                           IF k = key THEN info ELSE @[k]]],
              Cohorts |-> cohortUsageAdjusted(ch.Cohorts, ch.ClusterQueues[c].Cohort, usage, 1)]

\* the workload forgotten while its usage stays counted
cacheForgetWorkload(ch, key) ==
    LET c == ClusterQueueOfWorkload(ch, key)
    IN  IF c = "" THEN ch
        ELSE [ch EXCEPT !.ClusterQueues[c].Workloads = [k \in DOMAIN @ \ {key} |-> @[k]]]

cacheDeleteWorkload(ch, key) ==
    LET c == ClusterQueueOfWorkload(ch, key)
    IN  IF c = "" THEN ch
        ELSE LET usage == InfoUsage(ch.ClusterQueues[c].Workloads[key].TotalRequests, 1)
             IN  [ClusterQueues |->
                      [ch.ClusterQueues EXCEPT
                          ![c].Usage = SubUsage(@, usage),
                          ![c].Workloads = [k \in DOMAIN @ \ {key} |-> @[k]]],
                  Cohorts |-> cohortUsageAdjusted(ch.Cohorts, ch.ClusterQueues[c].Cohort,
                                                  usage, -1)]

cacheUpdateWorkload(ch, key, info) == cacheAddWorkload(cacheDeleteWorkload(ch, key), key, info)

\* Snapshot: a detached copy of every ClusterQueue with its cohort aggregates
Snapshot(ch) ==
    [c \in DOMAIN ch.ClusterQueues |->
        [ResourceGroups |-> ch.ClusterQueues[c].ResourceGroups,
         Usage |-> ch.ClusterQueues[c].Usage,
         CohortName |-> ch.ClusterQueues[c].Cohort,
         Cohort |-> IF ch.ClusterQueues[c].Cohort = "" THEN NoCohort
                    ELSE [present |-> TRUE,
                          RequestableResources |->
                              ch.Cohorts[ch.ClusterQueues[c].Cohort].RequestableResources,
                          Usage |-> ch.Cohorts[ch.ClusterQueues[c].Cohort].Usage]]]

----------------------------------------------------------------------------
(* Queue manager and scheduler cycle *)

WorkloadFinished == "Finished"

\* the podsready suite: prod-cq and dev-cq in cohort "all", flavor "default"
CQNominal == 5000
TestCQNominal == 25000
RequestSmall == 2000
RequestLarge == 11000
LowPrio == 0
HighPrio == 100

CQNames == {"prod-cq", "dev-cq"}

WorkloadNames == <<"w1", "w2">>

CpuResourceGroups(nominal) ==
    <<[CoveredResources |-> {"cpu"},
       Flavors |-> <<FlavorQuotas("default", {"cpu"}, nominal, NoLimit, 0)>>]>>

MakeWorkload(name, queue, priority, cpu, t) ==
    [Name |-> name, QueueName |-> queue, Priority |-> priority, CreationTimestamp |-> t,
     PodSets |-> <<[Name |-> "main", Count |-> 1, Requests |-> [r \in {"cpu"} |-> cpu],
                    Spec |-> PlainSpec]>>,
     Admission |-> NoAdmission, Conditions |-> <<>>]

\* an admission of the single pod set to flavor default
MakeAdmission(c, cpu) ==
    [set |-> TRUE, ClusterQueue |-> c,
     PodSetAssignments |-> <<[Name |-> "main", Flavors |-> [r \in {"cpu"} |-> "default"],
                              ResourceUsage |-> [r \in {"cpu"} |-> ResourceQuantity("cpu", cpu)]]>>]

NameIndex(n) == CHOOSE i \in 1..Len(WorkloadNames) : WorkloadNames[i] = n

\* the order of the timestamp and the name alone
queueOrderByTimestamp(a, b) ==
    \/ GetQueueOrderTimestamp(a) < GetQueueOrderTimestamp(b)
    \/ /\ GetQueueOrderTimestamp(a) = GetQueueOrderTimestamp(b)
       /\ NameIndex(a.Name) < NameIndex(b.Name)

\* the ordering key: priority descending, queue-order timestamp ascending,
\* name ascending
queueOrderBefore(a, b) ==
    \/ a.Priority > b.Priority
    \/ /\ a.Priority = b.Priority
       /\ GetQueueOrderTimestamp(a) < GetQueueOrderTimestamp(b)
    \/ /\ a.Priority = b.Priority
       /\ GetQueueOrderTimestamp(a) = GetQueueOrderTimestamp(b)
       /\ NameIndex(a.Name) < NameIndex(b.Name)

HeadOf(S, wls) == CHOOSE x \in S : \A y \in S \ {x} : queueOrderBefore(wls[x], wls[y])

RECURSIVE SortedByKey(_, _)
SortedByKey(S, wls) ==
    IF S = {} THEN <<>>
    ELSE LET h == HeadOf(S, wls)
         IN  <<h>> \o SortedByKey(S \ {h}, wls)

\* every pending workload offered, whatever the strategy
candidatesOfAnyStrategy(qs, wls, cqs, c) == qs[c]

\* the workloads a ClusterQueue offers to a cycle: under StrictFIFO its head
\* alone, under BestEffortFIFO the head and those after it
candidates(qs, wls, cqs, c) ==
    IF qs[c] = {} THEN {}
    ELSE IF cqs[c].QueueingStrategy = StrictFIFO THEN {HeadOf(qs[c], wls)}
    ELSE qs[c]

\* the entries of a cycle in the global order of the key
Heads(qs, wls, cqs) ==
    SortedByKey(UNION {candidates(qs, wls, cqs, c) : c \in DOMAIN cqs}, wls)

\* a gate that opens only when the cache holds no workload
NoAdmittedWorkloads(ch, wls) ==
    \A c \in DOMAIN ch.ClusterQueues : DOMAIN ch.ClusterQueues[c].Workloads = {}

PodsReadyForAllAdmittedWorkloads(ch, wls) ==
    \A c \in DOMAIN ch.ClusterQueues : \A k \in DOMAIN ch.ClusterQueues[c].Workloads :
        IsStatusConditionTrue(wls[k].Conditions, WorkloadPodsReady)

\* no overlay: the snapshot as it was taken
snapshotUnchanged(snap, c, usage) == snap

\* the overlay: usage staged in this cycle, added to the ClusterQueue and to
\* the cohort as every member sees it
snapshotAdd(snap, c, usage) ==
    [d \in DOMAIN snap |->
        [snap[d] EXCEPT
            !.Usage = IF d = c THEN AddUsage(@, usage) ELSE @,
            !.Cohort = IF @.present /\ snap[d].CohortName = snap[c].CohortName
                       THEN [@ EXCEPT !.Usage = AddUsage(@, usage)]
                       ELSE @]]

\* the outcome of the cycle just completed: the entries in the order they were
\* taken, those admitted, those that fit but were withheld for PodsReady
NoCycle == [nominated |-> <<>>, admitted |-> {}, waiting |-> {}]

\* the workloads request cpu alone: a map of one key is visited in one order
CpuOrder == [outer |-> <<"cpu", "memory", "pods">>, inner |-> <<"cpu", "memory", "pods">>]

\* the admission of entry n: recorded on the workload, applied to the cache,
\* added to the overlay; the workload leaves its queue
admit(st, n, a, now) ==
    LET c == st.workloads[n].QueueName
        admitted == SetAdmission(st.workloads[n],
                                 [set |-> TRUE, ClusterQueue |-> c,
                                  PodSetAssignments |-> ToAPI(a)], now)
    IN  [st EXCEPT !.workloads[n] = admitted,
                   !.cache = cacheAddWorkload(@, n, NewInfo(admitted)),
                   !.queues[c] = @ \ {n},
                   !.snapshot = snapshotAdd(@, c, a.usage),
                   !.admitted = @ \cup {n},
                   !.done = @ \cup {c}]

\* no gate: every entry that fits is admitted
nominateWithoutGate(st, n, a, waitForPodsReady, now) ==
    IF RepresentativeMode(a) # Fit THEN st ELSE admit(st, n, a, now)

\* the gate closed by the workloads of the entry's own ClusterQueue alone
nominateBehindOwnQueue(st, n, a, waitForPodsReady, now) ==
    IF RepresentativeMode(a) # Fit THEN st
    ELSE IF waitForPodsReady
            /\ \E k \in DOMAIN st.cache.ClusterQueues[st.workloads[n].QueueName].Workloads :
                   ~IsStatusConditionTrue(st.workloads[k].Conditions, WorkloadPodsReady)
    THEN [st EXCEPT !.waiting = @ \cup {n}]
    ELSE admit(st, n, a, now)

\* what a cycle does with entry n once its assignment a is computed: skipped
\* unless Fit, withheld while an admitted workload is not ready, else admitted
nominate(st, n, a, waitForPodsReady, now) ==
    IF RepresentativeMode(a) # Fit THEN st
    ELSE IF waitForPodsReady /\ ~PodsReadyForAllAdmittedWorkloads(st.cache, st.workloads)
    THEN [st EXCEPT !.waiting = @ \cup {n}]
    ELSE admit(st, n, a, now)

\* one entry of a cycle, fitted against the snapshot with the overlay; an entry
\* of a ClusterQueue that admitted in this cycle is passed over
scheduleEntry(st, n, waitForPodsReady, now, ord) ==
    IF st.workloads[n].QueueName \in st.done THEN st
    ELSE nominate([st EXCEPT !.nominated = Append(@, n)], n,
                  AssignFlavors(st.workloads[n], AllResourceFlavors,
                                st.snapshot[st.workloads[n].QueueName], ord),
                  waitForPodsReady, now)

\* the loop over the entries of a cycle
RECURSIVE schedule(_, _, _, _, _, _)
schedule(entries, i, st, waitForPodsReady, now, ord) ==
    IF i > Len(entries) THEN st
    ELSE schedule(entries, i + 1,
                  scheduleEntry(st, entries[i], waitForPodsReady, now, ord),
                  waitForPodsReady, now, ord)

SchedIdle ==
    /\ cache = EmptyCache
    /\ queues = [c \in {} |-> {}]
    /\ workloads = NoWorkloads
    /\ config = [waitForPodsReady |-> FALSE]
    /\ created = 0
    /\ lastCycle = NoCycle

----------------------------------------------------------------------------
(* Specification AssignSpec: AssignFlavors applied to a workload and a
   ClusterQueue snapshot *)

FitIdle ==
    /\ fitIn = [val |-> 0]
    /\ fitOut = [done |-> FALSE]

AssignIdle ==
    /\ cq = ClusterQueueOf("cpu only", 0, 0, NoLimit, 0, [present |-> FALSE])
    /\ wl = WorkloadOf(<<NoRequests>>)
    /\ resourceFlavors = AllResourceFlavors
    /\ assignment = NoAssignment
    /\ apc = "idle"

AssignInit ==
    /\ cq \in AssignClusterQueues
    /\ wl \in AssignWorkloads
    /\ resourceFlavors = AllResourceFlavors
    /\ assignment = NoAssignment
    /\ apc = "init"
    /\ FitIdle
    /\ WorkloadIdle
    /\ SchedIdle

CallAssignFlavors ==
    /\ apc = "init"
    /\ \E o \in Orders(wl, cq) :
          assignment' = AssignFlavors(wl, resourceFlavors, cq, o)
    /\ apc' = "done"
    /\ UNCHANGED <<cq, wl, resourceFlavors, fitIn, fitOut, obj, wInfo, patchOut, clock, schedVars>>

AssignNext == CallAssignFlavors

AssignSpec == AssignInit /\ [][AssignNext]_vars

----------------------------------------------------------------------------
(* Specification GateSpec: AssignFlavors on ClusterQueues whose flavors may be
   tainted or missing from the catalogue, with and without the pods resource,
   and pod sets that tolerate the taint or request an uncovered resource *)

\* the quantities of the tests "skipping tainted flavor", "flavor not found"
\* and "num pods fit / don't fit"
GateNominal == 4000
GateRequest == 1000
GateCount == 3
PodsNominalFit == 3
PodsNominalShort == 2

SpotToleration ==
    [Key |-> "instance", Operator |-> "Equal", Value |-> "spot", Effect |-> "NoSchedule"]

\* pod sets of 1 or GateCount pods requesting GateRequest of cpu each, one of
\* them also of memory, one tolerating the taint of flavor tainted
GatePodSets ==
    {[Count |-> p[1], Requests |-> [r \in p[2] |-> GateRequest],
      Spec |-> [PlainSpec EXCEPT !.Tolerations = p[3]]] :
        p \in {<<1, {"cpu"}, {}>>, <<GateCount, {"cpu"}, {SpotToleration}>>,
               <<1, {"cpu", "memory"}, {}>>, <<GateCount, {"cpu"}, {}>>}}

GateWorkloads ==
    UNION {{[PodSets |-> [i \in 1..n |->
                            [Name |-> PodSetNames[i], Count |-> ps[i].Count,
                             Requests |-> ps[i].Requests, Spec |-> ps[i].Spec]]] :
               ps \in [1..n -> GatePodSets]} : n \in 1..MaxPodSets}

\* the flavors a resource group declares, in order
GateFlavorLists ==
    LET names == {"tainted", "nonexistent-flavor", "one", "two"}
    IN  {<<a>> : a \in names}
            \cup {<<x[1], x[2]>> : x \in {y \in names \X names : y[1] # y[2]}}

\* a ClusterQueue without cohort: one resource group covering cpu and, when
\* pods > 0, the pods resource; `used` pods of the first flavor are in use
GateClusterQueue(names, nominals, pods, used) ==
    LET covered == IF pods > 0 THEN {"cpu", "pods"} ELSE {"cpu"}
    IN  [ResourceGroups |->
             <<[CoveredResources |-> covered,
                Flavors |-> [j \in 1..Len(names) |->
                                [Name |-> names[j],
                                 Resources |-> [r \in covered |->
                                     IF r = "cpu" THEN Quota(nominals[j], NoLimit)
                                     ELSE Quota(pods, NoLimit)]]]]>>,
         Usage |-> IF used = 0 THEN NoQuantities
                   ELSE [f \in {names[1]} |->
                            [r \in covered |-> IF r = "cpu" THEN used * GateRequest ELSE used]],
         Cohort |-> NoCohort]

GateClusterQueues ==
    {GateClusterQueue(names, nominals, pods, used) :
        <<names, nominals>> \in
            UNION {{<<ns, nm>> : nm \in [1..Len(ns) -> {0, GateNominal}]} : ns \in GateFlavorLists},
        pods \in {0, PodsNominalShort, PodsNominalFit},
        used \in {0, 2}}

GateInit ==
    /\ cq \in GateClusterQueues
    /\ wl \in GateWorkloads
    /\ resourceFlavors = AllResourceFlavors
    /\ assignment = NoAssignment
    /\ apc = "init"
    /\ FitIdle
    /\ WorkloadIdle
    /\ SchedIdle

GateNext == CallAssignFlavors

GateSpec == GateInit /\ [][GateNext]_vars


----------------------------------------------------------------------------
(* Specification SelectorSpec: AssignFlavors on the ClusterQueues of GateSpec,
   with pod sets whose required node affinity cannot be parsed *)

\* a required node affinity of one term whose expression on the label key of
\* flavors one and two has an operator the selector cannot parse
MalformedAffinity ==
    [set |-> TRUE,
     terms |-> <<<<[Key |-> "type", Operator |-> "Invalid", Values |-> {"one"}]>>>>]

\* the pod sets of GateSpec and a pod set of one pod requesting GateRequest of
\* cpu with the malformed affinity
SelectorPodSets ==
    GatePodSets
        \cup {[Count |-> 1, Requests |-> [r \in {"cpu"} |-> GateRequest],
               Spec |-> [PlainSpec EXCEPT !.Affinity = MalformedAffinity]]}

\* workloads in which some pod set has the malformed affinity
SelectorWorkloads ==
    UNION {{[PodSets |-> [i \in 1..n |->
                            [Name |-> PodSetNames[i], Count |-> ps[i].Count,
                             Requests |-> ps[i].Requests, Spec |-> ps[i].Spec]]] :
               ps \in {x \in [1..n -> SelectorPodSets] :
                          \E i \in 1..n : x[i].Spec.Affinity = MalformedAffinity}} :
           n \in 1..MaxPodSets}

SelectorInit ==
    /\ cq \in GateClusterQueues
    /\ wl \in SelectorWorkloads
    /\ resourceFlavors = AllResourceFlavors
    /\ assignment = NoAssignment
    /\ apc = "init"
    /\ FitIdle
    /\ WorkloadIdle
    /\ SchedIdle

SelectorNext == CallAssignFlavors

SelectorSpec == SelectorInit /\ [][SelectorNext]_vars

----------------------------------------------------------------------------
(* Specification AffinitySpec: AssignFlavors on ClusterQueues without cohort
   whose flavors carry the label type, carry no label or are missing, with
   pod sets that have a node selector and a required node affinity *)

\* the node selectors of the tests "fits a node selector" and "fits with
\* node affinity", alone and combined, and one no flavor satisfies
AffinityNodeSelectors ==
    {NoLabels,
     [k \in {"type"} |-> "two"],
     [k \in {"ignored1"} |-> "foo"],
     [k \in {"type", "ignored1"} |-> IF k = "type" THEN "two" ELSE "foo"]}

TypeIn(v) == [Key |-> "type", Operator |-> "In", Values |-> {v}]

IgnoredIn == [Key |-> "ignored2", Operator |-> "In", Values |-> {"bar"}]

\* required node affinities: none, a term on the flavors' label, a term on
\* another key, both expressions in one term, and terms that are ORed
AffinityChoices ==
    {[set |-> FALSE, terms |-> <<>>]}
        \cup {[set |-> TRUE, terms |-> t] :
                 t \in {<< <<TypeIn("two")>> >>,
                        << <<TypeIn("three")>> >>,
                        << <<IgnoredIn>> >>,
                        << <<TypeIn("two"), IgnoredIn>> >>,
                        << <<IgnoredIn>>, <<TypeIn("two")>> >>,
                        << <<TypeIn("one")>>, <<TypeIn("two")>> >>,
                        << <<[Key |-> "type", Operator |-> "NotIn", Values |-> {"one"}]>> >>}}

\* pod sets of one pod requesting GateRequest of cpu
AffinityPodSets ==
    {[Count |-> 1, Requests |-> [r \in {"cpu"} |-> GateRequest],
      Spec |-> [PlainSpec EXCEPT !.NodeSelector = s, !.Affinity = a]] :
        s \in AffinityNodeSelectors, a \in AffinityChoices}

\* workloads of one pod set, as in the tests
AffinityWorkloads ==
    {[PodSets |-> <<[Name |-> PodSetNames[1], Count |-> ps.Count,
                     Requests |-> ps.Requests, Spec |-> ps.Spec]>>] :
        ps \in AffinityPodSets}

\* the flavors a resource group declares, in order
AffinityFlavorLists ==
    LET names == {"non-existent", "default", "one", "two"}
    IN  {<<a>> : a \in names}
            \cup {<<x[1], x[2]>> : x \in {y \in names \X names : y[1] # y[2]}}

AffinityClusterQueues ==
    {GateClusterQueue(names, [j \in 1..Len(names) |-> GateNominal], 0, 0) :
        names \in AffinityFlavorLists}

AffinityInit ==
    /\ cq \in AffinityClusterQueues
    /\ wl \in AffinityWorkloads
    /\ resourceFlavors = AllResourceFlavors
    /\ assignment = NoAssignment
    /\ apc = "init"
    /\ FitIdle
    /\ WorkloadIdle
    /\ SchedIdle

AffinityNext == CallAssignFlavors

AffinitySpec == AffinityInit /\ [][AffinityNext]_vars

----------------------------------------------------------------------------
(* Specification FitSpec: one call of fitsResourceQuota *)

FitQuantities == 0..MaxQty

FitInputs ==
    [fName : {"one"}, rName : {"cpu", "memory"},
     val : FitQuantities \cup {S6Request},
     used : FitQuantities \cup {S6Usage},
     Nominal : FitQuantities \cup {S6Nominal},
     BorrowingLimit : {NoLimit} \cup {Limit(v) : v \in FitQuantities \cup {S6BorrowingLimit}},
     cohort : {[present |-> FALSE, used |-> 0, requestable |-> 0]}
                 \cup [present : {TRUE}, used : FitQuantities \cup {S6Usage},
                       requestable : FitQuantities \cup {S6CohortRequestable}]]

\* the ClusterQueue snapshot and the quota a call is made with
FitClusterQueue(in) ==
    [ResourceGroups |-> <<>>,
     Usage |-> SetQuantity(NoQuantities, in.fName, in.rName, in.used),
     Cohort |-> IF in.cohort.present
                THEN [present |-> TRUE,
                      RequestableResources |->
                          SetQuantity(NoQuantities, in.fName, in.rName, in.cohort.requestable),
                      Usage |-> SetQuantity(NoQuantities, in.fName, in.rName, in.cohort.used)]
                ELSE NoCohort]

FitQuota(in) == Quota(in.Nominal, in.BorrowingLimit)

NoFitOut == [done |-> FALSE, mode |-> NoFit, borrow |-> 0, status |-> NoStatus]

FitInit ==
    /\ fitIn \in FitInputs
    /\ fitOut = NoFitOut
    /\ AssignIdle
    /\ WorkloadIdle
    /\ SchedIdle

CallFitsResourceQuota ==
    /\ ~fitOut.done
    /\ LET res == fitsResourceQuota(fitIn.fName, fitIn.rName, fitIn.val,
                                    FitClusterQueue(fitIn), FitQuota(fitIn))
       IN  fitOut' = [done |-> TRUE, mode |-> res.mode, borrow |-> res.borrow,
                      status |-> res.status]
    /\ UNCHANGED <<fitIn, cq, wl, resourceFlavors, assignment, apc, obj, wInfo, patchOut, clock, schedVars>>

FitNext == CallFitsResourceQuota

FitSpec == FitInit /\ [][FitNext]_vars

----------------------------------------------------------------------------
(* Specification WorkloadSpec: SetAdmission, UnsetAdmissionWithCondition and
   SetEvictedCondition applied in any order to one workload *)

WorkloadInit ==
    /\ obj = NewWorkload(0)
    /\ wInfo = NoInfo
    /\ patchOut = NoPatch
    /\ clock = 1
    /\ FitIdle
    /\ AssignIdle
    /\ SchedIdle

OthersIdle == UNCHANGED <<assignVars, schedVars, wInfo, patchOut>>

DoSetAdmission ==
    /\ \E name \in {"prod-cq", "dev-cq"} :
          obj' = SetAdmission(obj, AdmissionTo(name), clock)
    /\ UNCHANGED clock
    /\ OthersIdle

DoUnsetAdmission ==
    /\ \E reason \in {"Evicted", "Pending"} :
          obj' = UnsetAdmissionWithCondition(obj, reason, clock)
    /\ UNCHANGED clock
    /\ OthersIdle

DoSetEvicted ==
    /\ \E reason \in {WorkloadEvictedByPodsReadyTimeout, WorkloadEvictedByPreemption} :
          obj' = SetEvictedCondition(obj, reason, clock)
    /\ UNCHANGED clock
    /\ OthersIdle

Tick ==
    /\ clock < MaxTime
    /\ clock' = clock + 1
    /\ UNCHANGED obj
    /\ OthersIdle

WorkloadNext == DoSetAdmission \/ DoUnsetAdmission \/ DoSetEvicted \/ Tick

WorkloadSpec == WorkloadInit /\ [][WorkloadNext]_vars

----------------------------------------------------------------------------
(* Specification PatchSpec: a controller reads a workload, changes its
   admission and conditions on its copy and sends them with
   ApplyAdmissionStatus, while the job controller sets PodsReady on the
   stored workload *)

StoredName == "wl"

\* the workload as first stored, at resourceVersion 1
StoredWorkload ==
    [UID |-> "uid-1", Name |-> StoredName, Namespace |-> "default", Generation |-> 1,
     APIVersion |-> "", Kind |-> "", ResourceVersion |-> 1, CreationTimestamp |-> 0,
     Admission |-> NoAdmission, Conditions |-> <<>>, managed |-> {}]

PatchInit ==
    /\ workloads = [n \in {StoredName} |-> StoredWorkload]
    /\ obj = StoredWorkload
    /\ wInfo = NoInfo
    /\ patchOut = NoPatch
    /\ clock = 1
    /\ cache = EmptyCache
    /\ queues = [c \in {} |-> {}]
    /\ config = [waitForPodsReady |-> FALSE]
    /\ created = 0
    /\ lastCycle = NoCycle
    /\ FitIdle
    /\ AssignIdle

PatchRest == UNCHANGED <<assignVars, wInfo, clock, cache, queues, config, created, lastCycle>>

\* the controller reads the stored workload
GetWorkload ==
    /\ obj' = workloads[StoredName]
    /\ UNCHANGED <<workloads, patchOut>>
    /\ PatchRest

\* the controller admits its copy to prod-cq
AdmitCopy ==
    /\ obj' = SetAdmission(obj, AdmissionTo("prod-cq"), clock)
    /\ UNCHANGED <<workloads, patchOut>>
    /\ PatchRest

\* the controller marks its copy evicted on the PodsReady timeout
EvictCopy ==
    /\ obj' = SetEvictedCondition(obj, WorkloadEvictedByPodsReadyTimeout, clock)
    /\ UNCHANGED <<workloads, patchOut>>
    /\ PatchRest

\* the controller clears the admission of its copy
RequeueCopy ==
    /\ obj' = UnsetAdmissionWithCondition(obj, "Evicted", clock)
    /\ UNCHANGED <<workloads, patchOut>>
    /\ PatchRest

\* the job controller sets the PodsReady condition of the stored workload
JobSetsPodsReady ==
    /\ workloads[StoredName].ResourceVersion < MaxVersion
    /\ \E status \in {"True", "False"} :
          LET stored == workloads[StoredName]
              conditions == SetStatusCondition(stored.Conditions,
                                Condition(WorkloadPodsReady, status, "PodsReady", clock))
          IN  /\ conditions # stored.Conditions
              /\ workloads' = [workloads EXCEPT
                     ![StoredName] = [stored EXCEPT
                         !.Conditions = conditions,
                         !.ResourceVersion = stored.ResourceVersion + 1]]
    /\ UNCHANGED <<obj, patchOut>>
    /\ PatchRest

CallApplyAdmissionStatus ==
    /\ workloads[StoredName].ResourceVersion < MaxVersion
    /\ \E strict \in BOOLEAN :
          LET patch == ApplyAdmissionStatus(obj, strict)
              res == ServerSideApply(workloads[StoredName], patch)
          IN  /\ workloads' = [workloads EXCEPT ![StoredName] = res.obj]
              /\ patchOut' = [done |-> TRUE, strict |-> strict, patch |-> patch,
                              err |-> res.err]
    /\ UNCHANGED obj
    /\ PatchRest

PatchNext ==
    \/ GetWorkload
    \/ AdmitCopy
    \/ EvictCopy
    \/ RequeueCopy
    \/ JobSetsPodsReady
    \/ CallApplyAdmissionStatus

PatchSpec == PatchInit /\ [][PatchNext]_vars

----------------------------------------------------------------------------
(* Specification InfoSpec: NewInfo applied to a workload of one or two pod
   sets, pending or admitted *)

\* pod sets driver and workers, with the counts and per-pod requests of
\* TestNewInfo
InfoPodSet(name) ==
    {[Name |-> name, Count |-> count, Requests |-> requests] :
        count \in {1, 3},
        requests \in {[r \in {"cpu"} |-> 10],
                      [r \in {"cpu", "memory"} |-> IF r = "cpu" THEN 5 ELSE 1024]}}

\* the assignments an admission records: the flavor of cpu or none, and a
\* ResourceUsage given in milli-units or in units
InfoAssignment(name) ==
    {[Name |-> name, Flavors |-> flavors, ResourceUsage |-> usage] :
        flavors \in {[r \in {"cpu"} |-> "on-demand"], [r \in {} |-> ""]},
        usage \in {[r \in {"cpu", "memory"} |->
                       IF r = "cpu" THEN [Scale |-> "milli", Value |-> 15, Format |-> "DecimalSI"]
                       ELSE [Scale |-> "unit", Value |-> 3072, Format |-> "BinarySI"]],
                   [r \in {"cpu"} |-> [Scale |-> "unit", Value |-> 1, Format |-> "DecimalSI"]]}}

InfoWorkloads ==
    {[CreationTimestamp |-> 0, PodSets |-> podSets, Admission |-> admission,
      Conditions |-> <<>>] :
        podSets \in {<<d>> : d \in InfoPodSet("driver")}
                        \cup (InfoPodSet("driver") \X InfoPodSet("workers")),
        admission \in {NoAdmission}
            \cup {[set |-> TRUE, ClusterQueue |-> "foo", PodSetAssignments |-> psas] :
                     psas \in {<<d>> : d \in InfoAssignment("driver")}
                                  \cup (InfoAssignment("driver") \X InfoAssignment("workers"))}}

InfoInit ==
    /\ obj \in InfoWorkloads
    /\ wInfo = NoInfo
    /\ patchOut = NoPatch
    /\ clock = 0
    /\ FitIdle
    /\ AssignIdle
    /\ SchedIdle

DoNewInfo ==
    /\ ~wInfo.done
    /\ wInfo' = [ClusterQueue |-> NewInfo(obj).ClusterQueue,
                TotalRequests |-> NewInfo(obj).TotalRequests,
                done |-> TRUE]
    /\ UNCHANGED <<assignVars, schedVars, obj, patchOut, clock>>

InfoNext == DoNewInfo

InfoSpec == InfoInit /\ [][InfoNext]_vars

----------------------------------------------------------------------------
(* Specification Spec: workloads created, scheduled, made ready, evicted on
   the PodsReady timeout, finished and deleted, on prod-cq and dev-cq *)

SchedCache(strategy) ==
    AddOrUpdateClusterQueue(
        AddOrUpdateClusterQueue(EmptyCache, "prod-cq", "all", strategy,
                                CpuResourceGroups(CQNominal)),
        "dev-cq", "all", strategy, CpuResourceGroups(CQNominal))

Init ==
    /\ \E strategy \in {StrictFIFO, BestEffortFIFO} : cache = SchedCache(strategy)
    /\ queues = [c \in CQNames |-> {}]
    /\ workloads = NoWorkloads
    /\ config \in [waitForPodsReady : BOOLEAN]
    /\ created = 0
    /\ lastCycle = NoCycle
    /\ obj = NewWorkload(0)
    /\ wInfo = NoInfo
    /\ patchOut = NoPatch
    /\ clock = 0
    /\ FitIdle
    /\ AssignIdle

RestIdle == UNCHANGED <<assignVars, obj, wInfo, patchOut>>

\* a workload is created and queued; at most one has the high priority and,
\* the two ClusterQueues being alike, the first one is queued in prod-cq
CreateWorkload ==
    /\ created < Len(WorkloadNames)
    /\ \E c \in (IF created = 0 THEN {"prod-cq"} ELSE CQNames), priority \in {LowPrio, HighPrio}, cpu \in {RequestSmall, RequestLarge} :
          LET n == WorkloadNames[created + 1]
          IN  /\ priority = HighPrio =>
                     \A k \in DOMAIN workloads : workloads[k].Priority = LowPrio
              /\ workloads' = [k \in DOMAIN workloads \cup {n} |->
                                  IF k = n THEN MakeWorkload(n, c, priority, cpu, clock)
                                  ELSE workloads[k]]
              /\ queues' = [queues EXCEPT ![c] = @ \cup {n}]
    /\ created' = created + 1
    /\ lastCycle' = NoCycle
    /\ UNCHANGED <<cache, config, clock>>
    /\ RestIdle

ScheduleCycle ==
    /\ \E c \in CQNames : queues[c] # {}
    /\ \E res \in {schedule(Heads(queues, workloads, cache.ClusterQueues), 1,
                           [workloads |-> workloads, cache |-> cache, queues |-> queues,
                            snapshot |-> Snapshot(cache), done |-> {},
                            nominated |-> <<>>, admitted |-> {}, waiting |-> {}],
                           config.waitForPodsReady, clock, CpuOrder)} :
          /\ workloads' = res.workloads
          /\ cache' = res.cache
          /\ queues' = res.queues
          /\ lastCycle' = [nominated |-> res.nominated, admitted |-> res.admitted,
                           waiting |-> res.waiting]
    /\ UNCHANGED <<config, created, clock>>
    /\ RestIdle

HasEvictedTrue(w) == IsStatusConditionTrue(w.Conditions, WorkloadEvicted)

HasFinished(w) == IsStatusConditionTrue(w.Conditions, WorkloadFinished)

\* the job reports on the pods of an admitted workload, which it does when
\* waiting for PodsReady is configured
SetPodsReady ==
    /\ config.waitForPodsReady
    /\ \E n \in DOMAIN workloads, status \in {"True", "False"} :
          /\ workloads[n].Admission.set
          /\ ~HasEvictedTrue(workloads[n])
          /\ ~HasFinished(workloads[n])
          /\ workloads' = [workloads EXCEPT
                 ![n].Conditions = SetStatusCondition(@,
                     Condition(WorkloadPodsReady, status, "PodsReady", clock))]
    /\ lastCycle' = NoCycle
    /\ UNCHANGED <<cache, queues, config, created, clock>>
    /\ RestIdle

\* the time the workload was created
CreatedAt(w) == w.CreationTimestamp

AdmittedAt(w) == w.Conditions[FindStatusCondition(w.Conditions, WorkloadAdmitted)].LastTransitionTime

\* the PodsReady monitor: an admitted workload not ready within the timeout
EvictOnTimeout ==
    /\ config.waitForPodsReady
    /\ \E n \in DOMAIN workloads :
          /\ IsAdmitted(workloads[n])
          /\ ~HasFinished(workloads[n])
          /\ ~HasEvictedTrue(workloads[n])
          /\ ~IsStatusConditionTrue(workloads[n].Conditions, WorkloadPodsReady)
          /\ clock - AdmittedAt(workloads[n]) >= podsReadyTimeout
          /\ workloads' = [workloads EXCEPT
                 ![n] = SetEvictedCondition(@, WorkloadEvictedByPodsReadyTimeout, clock)]
    /\ lastCycle' = NoCycle
    /\ UNCHANGED <<cache, queues, config, created, clock>>
    /\ RestIdle

\* the job controller acknowledges the eviction: the admission is cleared,
\* the usage released, the workload queued again
FinishEviction ==
    /\ \E n \in DOMAIN workloads :
          /\ workloads[n].Admission.set
          /\ HasEvictedTrue(workloads[n])
          /\ ~HasFinished(workloads[n])
          /\ workloads' = [workloads EXCEPT
                 ![n] = UnsetAdmissionWithCondition(@, "Evicted", clock)]
          /\ cache' = cacheDeleteWorkload(cache, n)
          /\ queues' = [queues EXCEPT ![workloads[n].QueueName] = @ \cup {n}]
    /\ lastCycle' = NoCycle
    /\ UNCHANGED <<config, created, clock>>
    /\ RestIdle

\* an admitted workload completes: its usage is reclaimed
FinishWorkload ==
    /\ \E n \in DOMAIN workloads :
          /\ workloads[n].Admission.set
          /\ ~HasFinished(workloads[n])
          /\ workloads' = [workloads EXCEPT
                 ![n].Conditions = SetStatusCondition(@,
                     Condition(WorkloadFinished, "True", "JobFinished", clock))]
          /\ cache' = cacheDeleteWorkload(cache, n)
    /\ lastCycle' = NoCycle
    /\ UNCHANGED <<queues, config, created, clock>>
    /\ RestIdle

DeleteWorkload ==
    /\ \E n \in DOMAIN workloads :
          /\ workloads' = [k \in DOMAIN workloads \ {n} |-> workloads[k]]
          /\ cache' = cacheDeleteWorkload(cache, n)
          /\ queues' = [c \in DOMAIN queues |-> queues[c] \ {n}]
    /\ lastCycle' = NoCycle
    /\ UNCHANGED <<config, created, clock>>
    /\ RestIdle

Advance ==
    /\ clock < MaxClock
    /\ clock' = clock + 1
    /\ lastCycle' = NoCycle
    /\ UNCHANGED <<cache, queues, workloads, config, created>>
    /\ RestIdle

Next ==
    \/ CreateWorkload
    \/ ScheduleCycle
    \/ SetPodsReady
    \/ EvictOnTimeout
    \/ FinishEviction
    \/ FinishWorkload
    \/ DeleteWorkload
    \/ Advance

Spec == Init /\ [][Next]_vars

----------------------------------------------------------------------------
(* Specification CohortSpec: the podsready suite under its long timeout, which
   no workload outlives: two workloads submitted to prod-cq and dev-cq,
   test-cq joining the cohort, pods reported ready, and a scheduler that keeps
   running its cycle *)

CohortInit ==
    /\ cache = SchedCache(BestEffortFIFO)
    /\ queues = [c \in CQNames \cup {"test-cq"} |-> {}]
    /\ workloads = NoWorkloads
    /\ config \in [waitForPodsReady : BOOLEAN]
    /\ created = 0
    /\ lastCycle = NoCycle
    /\ obj = NewWorkload(0)
    /\ wInfo = NoInfo
    /\ patchOut = NoPatch
    /\ clock = 0
    /\ FitIdle
    /\ AssignIdle

\* a workload is submitted, the first one to prod-cq: it requests a part of
\* the nominal quota, or all of it, or what needs unused quota of the other
\* ClusterQueue, or more than the two ClusterQueues have together
SubmitWorkload ==
    /\ created < Len(WorkloadNames)
    /\ \E c \in (IF created = 0 THEN {"prod-cq"} ELSE CQNames), priority \in {LowPrio, HighPrio},
          cpu \in {RequestSmall, CQNominal, CQNominal + RequestSmall, RequestLarge} :
          LET n == WorkloadNames[created + 1]
          IN  /\ workloads' = [k \in DOMAIN workloads \cup {n} |->
                                  IF k = n THEN MakeWorkload(n, c, priority, cpu, clock)
                                  ELSE workloads[k]]
              /\ queues' = [queues EXCEPT ![c] = @ \cup {n}]
    /\ created' = created + 1
    /\ lastCycle' = NoCycle
    /\ UNCHANGED <<cache, config, clock>>
    /\ RestIdle

\* test-cq is created in the cohort, with no borrowing allowed to it
AddTestClusterQueue ==
    /\ "test-cq" \notin DOMAIN cache.ClusterQueues
    /\ cache' = AddOrUpdateClusterQueue(cache, "test-cq", "all", BestEffortFIFO,
                    <<[CoveredResources |-> {"cpu"},
                       Flavors |-> <<FlavorQuotas("default", {"cpu"}, TestCQNominal,
                                                  Limit(0), 0)>>]>>)
    /\ lastCycle' = NoCycle
    /\ UNCHANGED <<queues, workloads, config, created, clock>>
    /\ RestIdle

\* the pods of an admitted workload are reported ready
PodsBecomeReady ==
    /\ config.waitForPodsReady
    /\ \E n \in DOMAIN workloads :
          /\ workloads[n].Admission.set
          /\ ~IsStatusConditionTrue(workloads[n].Conditions, WorkloadPodsReady)
          /\ workloads' = [workloads EXCEPT
                 ![n].Conditions = SetStatusCondition(@,
                     Condition(WorkloadPodsReady, "True", "PodsReady", clock))]
    /\ lastCycle' = NoCycle
    /\ UNCHANGED <<cache, queues, config, created, clock>>
    /\ RestIdle

CohortNext ==
    \/ SubmitWorkload
    \/ AddTestClusterQueue
    \/ ScheduleCycle
    \/ PodsBecomeReady
    \/ Advance

\* a cycle run now would change the state: the condition under which
\* <<ScheduleCycle>>_vars is enabled
CycleWouldAct ==
    /\ \E c \in CQNames : queues[c] # {}
    /\ \E res \in {schedule(Heads(queues, workloads, cache.ClusterQueues), 1,
                           [workloads |-> workloads, cache |-> cache, queues |-> queues,
                            snapshot |-> Snapshot(cache), done |-> {},
                            nominated |-> <<>>, admitted |-> {}, waiting |-> {}],
                           config.waitForPodsReady, clock, CpuOrder)} :
          <<res.workloads, res.cache, res.queues,
            [nominated |-> res.nominated, admitted |-> res.admitted,
             waiting |-> res.waiting]>> # <<workloads, cache, queues, lastCycle>>

\* the scheduler is a loop that keeps running its cycle: weak fairness of
\* ScheduleCycle, with its enabling condition written out
CycleFairness == []<>(~CycleWouldAct) \/ []<><<ScheduleCycle>>_vars

\* time passes, up to the horizon, and the scheduler keeps running
CohortSpec == CohortInit /\ [][CohortNext]_vars /\ WF_vars(Advance) /\ CycleFairness

----------------------------------------------------------------------------
(* Specification TimeoutSpec: the podsready suite under its short timeout,
   with pods that are never reported ready: workloads created, scheduled,
   evicted by the monitor at the timeout, their eviction finalised, finished
   and deleted, while time passes and the scheduler and the monitor keep
   running *)

TimeoutInit ==
    /\ cache = SchedCache(BestEffortFIFO)
    /\ queues = [c \in CQNames |-> {}]
    /\ workloads = NoWorkloads
    /\ config = [waitForPodsReady |-> TRUE]
    /\ created = 0
    /\ lastCycle = NoCycle
    /\ obj = NewWorkload(0)
    /\ wInfo = NoInfo
    /\ patchOut = NoPatch
    /\ clock = 0
    /\ FitIdle
    /\ AssignIdle

TimeoutNext ==
    \/ CreateWorkload
    \/ ScheduleCycle
    \/ EvictOnTimeout
    \/ FinishEviction
    \/ FinishWorkload
    \/ DeleteWorkload
    \/ Advance

\* time passes, up to the horizon; the monitor acts on a workload that has
\* timed out; the scheduler keeps running
TimeoutSpec ==
    TimeoutInit /\ [][TimeoutNext]_vars
        /\ WF_vars(Advance) /\ WF_vars(EvictOnTimeout) /\ CycleFairness

----------------------------------------------------------------------------
(* Specification CircularSpec: three workloads, each requesting the nominal
   quota of prod-cq, created one after the other before their local queue
   exists; then admission starts, pods are never reported ready, and
   workloads are evicted at the timeout and finished *)

CircularNames == <<"w1", "w2", "w3">>

\* the next workload is created, a later second than the one before it; its
\* local queue does not exist yet, so it is not queued
CreateInOrder ==
    /\ created < Len(CircularNames)
    /\ \A k \in DOMAIN workloads : workloads[k].CreationTimestamp < clock
    /\ workloads' = [k \in DOMAIN workloads \cup {CircularNames[created + 1]} |->
                        IF k \in DOMAIN workloads THEN workloads[k]
                        ELSE MakeWorkload(k, "prod-cq", LowPrio, CQNominal, clock)]
    /\ created' = created + 1
    /\ lastCycle' = NoCycle
    /\ UNCHANGED <<cache, queues, config, clock>>
    /\ RestIdle

\* the local queue is created once the three workloads exist: they are queued
\* in prod-cq
CreateLocalQueue ==
    /\ created = Len(CircularNames)
    /\ queues["prod-cq"] = {}
    /\ \A k \in DOMAIN workloads : workloads[k].Conditions = <<>>
    /\ queues' = [queues EXCEPT !["prod-cq"] = DOMAIN workloads]
    /\ lastCycle' = NoCycle
    /\ UNCHANGED <<cache, workloads, config, created, clock>>
    /\ RestIdle

\* a second passes
Elapse ==
    /\ clock < MaxTime
    /\ clock' = clock + 1
    /\ lastCycle' = NoCycle
    /\ UNCHANGED <<cache, queues, workloads, config, created>>
    /\ RestIdle

CircularNext ==
    \/ CreateInOrder
    \/ CreateLocalQueue
    \/ ScheduleCycle
    \/ EvictOnTimeout
    \/ FinishEviction
    \/ FinishWorkload
    \/ Elapse

CircularSpec == TimeoutInit /\ [][CircularNext]_vars

----------------------------------------------------------------------------
(* Specification CacheSpec: the operations of the cache in any order *)

CacheInit ==
    /\ cache = EmptyCache
    /\ queues = [c \in {} |-> {}]
    /\ workloads = NoWorkloads
    /\ config = [waitForPodsReady |-> FALSE]
    /\ created = 0
    /\ lastCycle = NoCycle
    /\ FitIdle
    /\ AssignIdle
    /\ WorkloadIdle

CacheRest == UNCHANGED <<assignVars, obj, wInfo, patchOut, clock, queues, workloads, config, created,
                         lastCycle>>

\* a ClusterQueue added, or updated: cohort joined, left or changed, Nominal changed
CacheAddOrUpdateClusterQueue ==
    /\ \E name \in CQNames, cohort \in {"", "all", "other"},
           nominal \in {CQNominal, TestCQNominal} :
          cache' = AddOrUpdateClusterQueue(cache, name, cohort, BestEffortFIFO,
                                           CpuResourceGroups(nominal))
    /\ CacheRest

CacheDeleteClusterQueue ==
    /\ \E name \in DOMAIN cache.ClusterQueues : cache' = DeleteClusterQueue(cache, name)
    /\ CacheRest

\* an admitted workload as the cache is told of it
AdmittedWorkload(n, c, cpu) ==
    SetAdmission(MakeWorkload(n, c, LowPrio, cpu, 0), MakeAdmission(c, cpu), 0)

CachedWorkloads == UNION {DOMAIN cache.ClusterQueues[c].Workloads : c \in DOMAIN cache.ClusterQueues}

CacheAddWorkload ==
    /\ \E i \in 1..Len(WorkloadNames), c \in DOMAIN cache.ClusterQueues,
           cpu \in {RequestSmall, RequestLarge} :
          /\ WorkloadNames[i] \notin CachedWorkloads
          /\ cache' = cacheAddWorkload(cache, WorkloadNames[i],
                                       NewInfo(AdmittedWorkload(WorkloadNames[i], c, cpu)))
    /\ CacheRest

CacheUpdateWorkload ==
    /\ \E n \in CachedWorkloads, c \in DOMAIN cache.ClusterQueues,
           cpu \in {RequestSmall, RequestLarge} :
          cache' = cacheUpdateWorkload(cache, n, NewInfo(AdmittedWorkload(n, c, cpu)))
    /\ CacheRest

CacheDeleteWorkload ==
    /\ \E n \in CachedWorkloads : cache' = cacheDeleteWorkload(cache, n)
    /\ CacheRest

CacheNext ==
    \/ CacheAddOrUpdateClusterQueue
    \/ CacheDeleteClusterQueue
    \/ CacheAddWorkload
    \/ CacheUpdateWorkload
    \/ CacheDeleteWorkload

CacheSpec == CacheInit /\ [][CacheNext]_vars

----------------------------------------------------------------------------
(* Properties of the flavor assigner *)

\* the flavors declared by the resource groups of the snapshot, with quotas
DeclaredQuotas(q) ==
    {[f |-> q.ResourceGroups[g].Flavors[j].Name, r |-> r,
      quota |-> q.ResourceGroups[g].Flavors[j].Resources[r]] :
        <<g, j, r>> \in {x \in (1..Len(q.ResourceGroups)) \X (1..2) \X Resources :
                            /\ x[2] <= Len(q.ResourceGroups[x[1]].Flavors)
                            /\ x[3] \in DOMAIN q.ResourceGroups[x[1]].Flavors[x[2]].Resources}}

\* what the pod sets of an assignment request of resource r on flavor f
RECURSIVE AssignedTotal(_, _, _, _)
AssignedTotal(podSets, i, f, r) ==
    IF i > Len(podSets) THEN 0
    ELSE (IF r \in DOMAIN podSets[i].Flavors /\ podSets[i].Flavors[r].Name = f
          THEN podSets[i].Requests[r].Value ELSE 0)
         + AssignedTotal(podSets, i + 1, f, r)

AssignDone == apc = "done"

\* whether some pod set of the assignment got flavor f for resource r
Assigned(podSets, f, r) ==
    \E i \in 1..Len(podSets) :
        r \in DOMAIN podSets[i].Flavors /\ podSets[i].Flavors[r].Name = f

\* C1: an assignment whose representative mode is Fit, once its requests
\* (summed over all pod sets of each flavor) are added to the snapshot usage,
\* makes no flavor and resource it uses exceed Nominal + BorrowingLimit of the
\* ClusterQueue, where a limit is set, nor the cohort's RequestableResources.
C1_FitStaysWithinQuota ==
    (AssignDone /\ RepresentativeMode(assignment) = Fit) =>
        \A d \in {x \in DeclaredQuotas(cq) : Assigned(assignment.PodSets, x.f, x.r)} :
            LET total == AssignedTotal(assignment.PodSets, 1, d.f, d.r)
            IN  /\ d.quota.BorrowingLimit.set =>
                       Quantity(cq.Usage, d.f, d.r) + total
                           <= d.quota.Nominal + d.quota.BorrowingLimit.v
                /\ cq.Cohort.present =>
                       Quantity(cq.Cohort.Usage, d.f, d.r) + total
                           <= Quantity(cq.Cohort.RequestableResources, d.f, d.r)

\* two pod sets land on flavor one, which has a borrowing limit, and borrow
C1_Witness ==
    /\ AssignDone
    /\ RepresentativeMode(assignment) = Fit
    /\ Len(assignment.PodSets) = 2
    /\ \A i \in 1..2 : /\ "cpu" \in DOMAIN assignment.PodSets[i].Flavors
                       /\ assignment.PodSets[i].Flavors["cpu"].Name = "one"
                       /\ assignment.PodSets[i].Requests["cpu"].Value > 0
    /\ cq.Cohort.present
    /\ \E d \in DeclaredQuotas(cq) :
          /\ d.f = "one" /\ d.r = "cpu" /\ d.quota.BorrowingLimit.set
          /\ Quantity(cq.Usage, "one", "cpu")
                 + AssignedTotal(assignment.PodSets, 1, "one", "cpu") > d.quota.Nominal

\* mode of a pod set read off its flavors: the worst mode over the requested
\* resources, a resource without flavor counting as NoFit
FlavorsMode(psa) ==
    IF \E r \in DOMAIN psa.Requests : r \notin DOMAIN psa.Flavors THEN NoFit
    ELSE IF \E r \in DOMAIN psa.Requests : psa.Flavors[r].Mode = NoFit THEN NoFit
    ELSE IF \E r \in DOMAIN psa.Requests : psa.Flavors[r].Mode = Preempt THEN Preempt
    ELSE Fit

\* the requests AssignFlavors fits for pod set i of the workload
FittedRequests(i) == podSetRequests(totalRequestsFromPodSets(wl), wl, cq, i)

\* C7: the representative mode is the minimum of the pod-set modes, each the
\* minimum over the pod set's resources; when it is Fit every requested
\* resource of every pod set of the workload has a flavor with mode Fit.
C7_RepresentativeModeIsMin ==
    AssignDone =>
        /\ \A i \in 1..Len(assignment.PodSets) :
               psRepresentativeMode(assignment.PodSets[i]) = FlavorsMode(assignment.PodSets[i])
        /\ \A i \in 1..Len(assignment.PodSets) :
               RepresentativeMode(assignment) <= FlavorsMode(assignment.PodSets[i])
        /\ \E i \in 1..Len(assignment.PodSets) :
               RepresentativeMode(assignment) = FlavorsMode(assignment.PodSets[i])
        /\ RepresentativeMode(assignment) = Fit =>
               /\ Len(assignment.PodSets) = Len(wl.PodSets)
               /\ \A i \in 1..Len(wl.PodSets) : \A r \in DOMAIN FittedRequests(i) :
                      /\ r \in DOMAIN assignment.PodSets[i].Flavors
                      /\ assignment.PodSets[i].Flavors[r].Mode = Fit

\* pod sets of different modes, one of them with resources of different modes
C7_Witness ==
    /\ AssignDone
    /\ Len(assignment.PodSets) = 2
    /\ RepresentativeMode(assignment) = Preempt
    /\ \E i, j \in 1..2 :
          /\ psRepresentativeMode(assignment.PodSets[i]) = Fit
          /\ psRepresentativeMode(assignment.PodSets[j]) = Preempt
          /\ \E r1, r2 \in DOMAIN assignment.PodSets[j].Flavors :
                /\ assignment.PodSets[j].Flavors[r1].Mode = Fit
                /\ assignment.PodSets[j].Flavors[r2].Mode = Preempt

\* C10: in a pod-set assignment with flavors, the requested resources one
\* resource group covers all get the same flavor, one declared in that group.
C10_OneFlavorPerGroup ==
    AssignDone =>
        \A i \in 1..Len(assignment.PodSets) :
            LET psa == assignment.PodSets[i]
            IN  DOMAIN psa.Flavors # {} =>
                    \A g \in 1..Len(cq.ResourceGroups) :
                        LET rg == cq.ResourceGroups[g]
                            rs == DOMAIN psa.Requests \cap rg.CoveredResources
                        IN  \A r1 \in rs, r2 \in rs :
                                /\ r1 \in DOMAIN psa.Flavors
                                /\ r2 \in DOMAIN psa.Flavors
                                /\ psa.Flavors[r1].Name = psa.Flavors[r2].Name
                                /\ \E j \in 1..Len(rg.Flavors) :
                                       rg.Flavors[j].Name = psa.Flavors[r1].Name

\* two pod sets with cpu and memory in one group pick different flavors of it
C10_Witness ==
    /\ AssignDone
    /\ Len(cq.ResourceGroups) = 1
    /\ Len(assignment.PodSets) = 2
    /\ \A i \in 1..2 : DOMAIN assignment.PodSets[i].Flavors = {"cpu", "memory"}
    /\ assignment.PodSets[1].Flavors["cpu"].Name = "one"
    /\ assignment.PodSets[2].Flavors["cpu"].Name = "two"

FitDone == fitOut.done

FitLimitExceeded ==
    /\ fitIn.BorrowingLimit.set
    /\ fitIn.used + fitIn.val > fitIn.Nominal + fitIn.BorrowingLimit.v

\* C8: when a BorrowingLimit is set and usage plus the requested value exceeds
\* Nominal + BorrowingLimit, the fit check never returns Fit: it returns
\* borrow 0 and the reason "borrowing limit ... exceeded", whatever the cohort.
C8_BorrowingLimitNeverFit ==
    (FitDone /\ FitLimitExceeded) =>
        /\ fitOut.mode # Fit
        /\ fitOut.borrow = 0
        /\ fitOut.status.set
        /\ fitOut.status.reasons =
               <<Reason("borrowing limit exceeded", fitIn.rName, fitIn.fName, 0)>>

\* Nominal 2000, limit 8000, usage 9000, request 2000, cohort 100000: Preempt
C8_Witness ==
    /\ FitDone
    /\ fitIn.Nominal = S6Nominal /\ fitIn.BorrowingLimit = Limit(S6BorrowingLimit)
    /\ fitIn.used = S6Usage /\ fitIn.val = S6Request
    /\ fitIn.cohort = [present |-> TRUE, used |-> S6Usage, requestable |-> S6CohortRequestable]
    /\ fitOut.mode = Preempt

\* whether the cohort (the ClusterQueue itself when it has none) has room
FitHasRoom ==
    IF fitIn.cohort.present THEN fitIn.cohort.used + fitIn.val <= fitIn.cohort.requestable
    ELSE fitIn.used + fitIn.val <= fitIn.Nominal

\* C9: when the borrowing limit is not exceeded the fit check returns Fit
\* exactly when the cohort has room (without cohort: usage + v <= Nominal);
\* the borrow is then max(0, usage + v - Nominal), and 0 without a cohort.
C9_FitIffCohortHasRoom ==
    (FitDone /\ ~FitLimitExceeded) =>
        /\ fitOut.mode = Fit <=> FitHasRoom
        /\ fitOut.mode = Fit =>
               /\ fitOut.borrow >= 0
               /\ fitOut.borrow >= fitIn.used + fitIn.val - fitIn.Nominal
               /\ fitOut.borrow \in {0, fitIn.used + fitIn.val - fitIn.Nominal}
               /\ ~fitIn.cohort.present => fitOut.borrow = 0

\* a Fit that borrows from the cohort, within a borrowing limit
C9_Witness ==
    /\ FitDone
    /\ fitOut.mode = Fit
    /\ fitOut.borrow > 0
    /\ fitIn.BorrowingLimit.set
    /\ fitIn.cohort.present


----------------------------------------------------------------------------
(* Properties of pkg/workload *)

\* C3: after any sequence of SetAdmission, UnsetAdmissionWithCondition and
\* SetEvictedCondition on a workload that starts without admission and
\* conditions, the workload has an admission iff its Admitted condition is True.
C3_AdmissionIffAdmitted == obj.Admission.set <=> IsAdmitted(obj)

\* a workload admitted again after an eviction that was carried through
C3_Witness ==
    /\ obj.Admission.set
    /\ IsAdmitted(obj)
    /\ \E i \in 1..Len(obj.Conditions) :
          /\ obj.Conditions[i].Type = WorkloadEvicted
          /\ obj.Conditions[i].Status = "False"
    /\ \E i \in 1..Len(obj.Conditions) :
          /\ obj.Conditions[i].Type = WorkloadAdmitted
          /\ obj.Conditions[i].LastTransitionTime > 1

----------------------------------------------------------------------------
(* Properties of the cache *)

FlavorNames == DOMAIN AllResourceFlavors

\* the sum over a set of ClusterQueues of their usage of one flavor and resource
RECURSIVE MembersUsage(_, _, _)
MembersUsage(S, f, r) ==
    IF S = {} THEN 0
    ELSE LET c == CHOOSE x \in S : TRUE
         IN  Quantity(cache.ClusterQueues[c].Usage, f, r) + MembersUsage(S \ {c}, f, r)

MembersOf(name) == {c \in DOMAIN cache.ClusterQueues : cache.ClusterQueues[c].Cohort = name}

\* C5: after any sequence of ClusterQueue add/update/delete (cohort joined,
\* left, changed, Nominal changed) and workload add/update/delete, every
\* cohort a ClusterQueue names is held by the cache, and its Usage of every
\* flavor and resource is the sum of the Usage of its member ClusterQueues.
C5_CohortUsageIsSumOfMembers ==
    /\ \A c \in DOMAIN cache.ClusterQueues :
           cache.ClusterQueues[c].Cohort # "" =>
               cache.ClusterQueues[c].Cohort \in DOMAIN cache.Cohorts
    /\ \A name \in DOMAIN cache.Cohorts : \A f \in FlavorNames, r \in Resources :
           Quantity(cache.Cohorts[name].Usage, f, r) = MembersUsage(MembersOf(name), f, r)

\* two cohorts, one of two members that both hold workloads of different sizes
C5_Witness ==
    /\ DOMAIN cache.Cohorts = {"all", "other"}
    /\ \E c \in DOMAIN cache.ClusterQueues :
          /\ cache.ClusterQueues[c].Cohort = "other"
          /\ DOMAIN cache.ClusterQueues[c].Workloads = {"w1", "w2"}
          /\ Quantity(cache.ClusterQueues[c].Usage, "default", "cpu")
                 = RequestSmall + RequestLarge
          /\ Quantity(cache.Cohorts["other"].Usage, "default", "cpu")
                 = RequestSmall + RequestLarge
    /\ Quantity(cache.Cohorts["all"].Usage, "default", "cpu") = 0

----------------------------------------------------------------------------
(* Properties of the scheduler *)

ConditionIs(w, type, status) ==
    \E i \in 1..Len(w.Conditions) :
        w.Conditions[i].Type = type /\ w.Conditions[i].Status = status

\* the workloads holding quota of ClusterQueue c: admitted to it, not finished
AdmittedIn(c) ==
    {n \in DOMAIN workloads :
        /\ workloads[n].Admission.set
        /\ workloads[n].Admission.ClusterQueue = c
        /\ ~ConditionIs(workloads[n], WorkloadFinished, "True")}

\* an admitted workload of c whose pods are not ready, younger than the timeout
BlocksAdmission(n, c) ==
    /\ n \in AdmittedIn(c)
    /\ ~ConditionIs(workloads[n], WorkloadPodsReady, "True")
    /\ clock - AdmittedAt(workloads[n]) < podsReadyTimeout

HasAdmissionAfter(n) == n \in DOMAIN workloads' /\ workloads'[n].Admission.set

\* C2: with waitForPodsReady, while a ClusterQueue has an admitted workload
\* whose PodsReady condition is not True and whose admission is younger than
\* podsReadyTimeout, no step admits a further workload into that ClusterQueue.
C2_PodsReadyBlocksClusterQueue ==
    [][config.waitForPodsReady =>
          \A c \in CQNames :
              (\E n \in DOMAIN workloads : BlocksAdmission(n, c)) =>
                  \A m \in DOMAIN workloads :
                      (HasAdmissionAfter(m) /\ workloads'[m].Admission.ClusterQueue = c)
                          => workloads[m].Admission.set]_vars

\* a cycle has just withheld a workload that fits in prod-cq, where another
\* one, admitted by an earlier cycle, is not ready and not timed out
C2_Witness ==
    /\ config.waitForPodsReady
    /\ \E n, m \in DOMAIN workloads :
          /\ BlocksAdmission(n, "prod-cq")
          /\ n \notin lastCycle.admitted
          /\ m \in queues["prod-cq"]
          /\ m \in lastCycle.waiting
          /\ Quantity(cache.ClusterQueues["prod-cq"].Usage, "default", "cpu")
                 + workloads[m].PodSets[1].Requests["cpu"] <= CQNominal

\* what pod set i of workload w, as its spec requests it, uses of flavor f and
\* resource r under the flavors of its admission
RequestedOnFlavor(w, i, f, r) ==
    LET reqs == totalRequestsFromPodSets(w)[i].Requests
        flavors == w.Admission.PodSetAssignments[i].Flavors
    IN  IF r \in DOMAIN reqs /\ r \in DOMAIN flavors /\ flavors[r] = f THEN reqs[r] ELSE 0

RECURSIVE WorkloadUsage(_, _, _, _)
WorkloadUsage(w, i, f, r) ==
    IF i > Len(w.PodSets) THEN 0
    ELSE RequestedOnFlavor(w, i, f, r) + WorkloadUsage(w, i + 1, f, r)

RECURSIVE AdmittedUsage(_, _, _)
AdmittedUsage(S, f, r) ==
    IF S = {} THEN 0
    ELSE LET n == CHOOSE x \in S : TRUE
         IN  WorkloadUsage(workloads[n], 1, f, r) + AdmittedUsage(S \ {n}, f, r)

\* C4: in every state, for every ClusterQueue, flavor and resource, the Usage
\* the cache holds equals the sum, over the workloads admitted in that
\* ClusterQueue and not finished, of what their pod sets request on that flavor.
C4_UsageIsSumOfAdmitted ==
    \A c \in CQNames : \A f \in FlavorNames, r \in Resources :
        Quantity(cache.ClusterQueues[c].Usage, f, r) = AdmittedUsage(AdmittedIn(c), f, r)

\* one workload back in the queue after its eviction was finalised, its usage
\* released, and the other one admitted to the same ClusterQueue after it
C4_Witness ==
    \E n, m \in DOMAIN workloads :
        /\ ~workloads[n].Admission.set
        /\ ConditionIs(workloads[n], WorkloadEvicted, "True")
        /\ ConditionIs(workloads[n], WorkloadAdmitted, "False")
        /\ n \in queues["prod-cq"]
        /\ AdmittedIn("prod-cq") = {m}
        /\ Quantity(cache.ClusterQueues["prod-cq"].Usage, "default", "cpu") = RequestSmall

\* C6: in a ClusterQueue with strategy StrictFIFO, a step that leaves the head
\* of the queue without admission admits no workload queued after the head.
C6_StrictFIFOHeadBlocks ==
    [][\A c \in CQNames :
          (cache.ClusterQueues[c].QueueingStrategy = StrictFIFO /\ queues[c] # {}) =>
              (~HasAdmissionAfter(HeadOf(queues[c], workloads)) =>
                   \A m \in queues[c] \ {HeadOf(queues[c], workloads)} :
                       ~HasAdmissionAfter(m))]_vars

\* a cycle has just taken the head of a StrictFIFO queue alone and not
\* admitted it, while the workload behind it fits and no PodsReady gate is set
C6_Witness ==
    /\ ~config.waitForPodsReady
    /\ cache.ClusterQueues["prod-cq"].QueueingStrategy = StrictFIFO
    /\ queues["prod-cq"] = {"w1", "w2"}
    /\ queues["dev-cq"] = {}
    /\ lastCycle.nominated = <<HeadOf(queues["prod-cq"], workloads)>>
    /\ lastCycle.admitted = {}
    /\ \E m \in queues["prod-cq"] \ {HeadOf(queues["prod-cq"], workloads)} :
          workloads[m].PodSets[1].Requests["cpu"] <= CQNominal
    /\ Quantity(cache.ClusterQueues["prod-cq"].Usage, "default", "cpu") = 0

----------------------------------------------------------------------------
(* Properties of the flavor gates *)

\* the reasons the status of a pod-set assignment carries
StatusReasons(psa) ==
    IF psa.Status.set THEN {psa.Status.reasons[k] : k \in 1..Len(psa.Status.reasons)} ELSE {}

Tolerated(taint, spec) ==
    \E tol \in spec.Tolerations :
        /\ tol.Effect \in {"", taint.Effect}
        /\ tol.Key \in {"", taint.Key}
        /\ tol.Operator = "Exists" \/ (tol.Operator \in {"", "Equal"} /\ tol.Value = taint.Value)

\* flavor f of the catalogue has a NoSchedule or NoExecute taint the pod does
\* not tolerate
HasUntoleratedTaint(f, spec) ==
    /\ f \in DOMAIN resourceFlavors
    /\ \E i \in 1..Len(resourceFlavors[f].NodeTaints) :
          /\ resourceFlavors[f].NodeTaints[i].Effect \in {"NoSchedule", "NoExecute"}
          /\ ~Tolerated(resourceFlavors[f].NodeTaints[i], spec)

\* the search over the flavors of rg ended without a Fit and its status is
\* the one the pod-set assignment carries
GroupReported(psa, rg) ==
    /\ DOMAIN psa.Requests \cap rg.CoveredResources # {}
    /\ psa.Status.set
    /\ ~psa.Status.err
    /\ \/ \E r \in DOMAIN psa.Requests \cap rg.CoveredResources :
              r \in DOMAIN psa.Flavors /\ psa.Flavors[r].Mode = Preempt
       \/ /\ DOMAIN psa.Flavors = {}
          /\ Len(cq.ResourceGroups) = 1
          /\ DOMAIN psa.Requests \subseteq rg.CoveredResources

\* flavor j of rg is in the catalogue, tolerated, and has nominal quota left
\* for every request of the pod set (no cohort, no selector)
FlavorFits(psa, rg, j, spec) ==
    /\ rg.Flavors[j].Name \in DOMAIN resourceFlavors
    /\ ~HasUntoleratedTaint(rg.Flavors[j].Name, spec)
    /\ \A r \in DOMAIN psa.Requests :
          Quantity(cq.Usage, rg.Flavors[j].Name, r) + psa.Requests[r].Value
              <= rg.Flavors[j].Resources[r].Nominal

\* the first pod set, all of whose requests the only resource group covers,
\* gets flavor k in mode Fit for each of them
FirstPodSetFitsOn(k) ==
    \A r \in DOMAIN assignment.PodSets[1].Requests :
        /\ r \in DOMAIN assignment.PodSets[1].Flavors
        /\ assignment.PodSets[1].Flavors[r].Name = cq.ResourceGroups[1].Flavors[k].Name
        /\ assignment.PodSets[1].Flavors[r].Mode = Fit

\* the flavors of the only resource group that precede the first fitting one,
\* when the group covers all requests of the first pod set; {} otherwise
SkippedBeforeFit(k) ==
    IF /\ Len(cq.ResourceGroups) = 1
       /\ ~cq.Cohort.present
       /\ Len(assignment.PodSets) >= 1
       /\ DOMAIN assignment.PodSets[1].Requests \subseteq cq.ResourceGroups[1].CoveredResources
       /\ k \in 1..Len(cq.ResourceGroups[1].Flavors)
       /\ FlavorFits(assignment.PodSets[1], cq.ResourceGroups[1], k, wl.PodSets[1].Spec)
       /\ \A j \in 1..(k - 1) :
              ~FlavorFits(assignment.PodSets[1], cq.ResourceGroups[1], j, wl.PodSets[1].Spec)
    THEN 1..(k - 1)
    ELSE {}

\* C11: no pod set is assigned a flavor with a NoSchedule or NoExecute taint
\* it does not tolerate; when the search of a resource group reports a status,
\* that status carries "untolerated taint ... in flavor <name>" for each such
\* flavor of the group; and the flavors declared after it are tried: the
\* first flavor that fits, declared after a tainted one, is assigned.
C11_UntoleratedTaintSkipped ==
    AssignDone =>
        /\ \A i \in 1..Len(assignment.PodSets) :
               /\ \A r \in DOMAIN assignment.PodSets[i].Flavors :
                      ~HasUntoleratedTaint(assignment.PodSets[i].Flavors[r].Name,
                                           wl.PodSets[i].Spec)
               /\ \A g \in 1..Len(cq.ResourceGroups) :
                      GroupReported(assignment.PodSets[i], cq.ResourceGroups[g]) =>
                          \A j \in 1..Len(cq.ResourceGroups[g].Flavors) :
                              HasUntoleratedTaint(cq.ResourceGroups[g].Flavors[j].Name,
                                                  wl.PodSets[i].Spec) =>
                                  [msg |-> "untolerated taint", r |-> "",
                                   f |-> cq.ResourceGroups[g].Flavors[j].Name, n |-> 0]
                                      \in StatusReasons(assignment.PodSets[i])
        /\ \A k \in 1..2 :
               (\E j \in SkippedBeforeFit(k) :
                    HasUntoleratedTaint(cq.ResourceGroups[1].Flavors[j].Name,
                                        wl.PodSets[1].Spec)) => FirstPodSetFitsOn(k)

\* flavors tainted and two, both with room: the pod set lands on two in Fit
C11_Witness ==
    /\ AssignDone
    /\ Len(cq.ResourceGroups) = 1
    /\ Len(cq.ResourceGroups[1].Flavors) = 2
    /\ cq.ResourceGroups[1].Flavors[1].Name = "tainted"
    /\ cq.ResourceGroups[1].Flavors[1].Resources["cpu"].Nominal = GateNominal
    /\ cq.ResourceGroups[1].Flavors[2].Name = "two"
    /\ wl.PodSets[1].Spec.Tolerations = {}
    /\ Len(assignment.PodSets) >= 1
    /\ "cpu" \in DOMAIN assignment.PodSets[1].Flavors
    /\ assignment.PodSets[1].Flavors["cpu"].Name = "two"
    /\ assignment.PodSets[1].Flavors["cpu"].Mode = Fit

\* C12: no pod set is assigned a flavor that is absent from the catalogue;
\* when the search of a resource group reports a status, that status carries
\* "flavor <name> not found" for each such flavor of the group; the first
\* flavor that exists and fits, declared after a missing one, is assigned in
\* mode Fit; and a workload that requests a resource of a group none of whose
\* flavors exists gets NoFit.
C12_MissingFlavorSkipped ==
    AssignDone =>
        /\ \A i \in 1..Len(assignment.PodSets) :
               /\ \A r \in DOMAIN assignment.PodSets[i].Flavors :
                      assignment.PodSets[i].Flavors[r].Name \in DOMAIN resourceFlavors
               /\ \A g \in 1..Len(cq.ResourceGroups) :
                      GroupReported(assignment.PodSets[i], cq.ResourceGroups[g]) =>
                          \A j \in 1..Len(cq.ResourceGroups[g].Flavors) :
                              cq.ResourceGroups[g].Flavors[j].Name \notin DOMAIN resourceFlavors =>
                                  [msg |-> "flavor not found", r |-> "",
                                   f |-> cq.ResourceGroups[g].Flavors[j].Name, n |-> 0]
                                      \in StatusReasons(assignment.PodSets[i])
        /\ \A k \in 1..2 :
               (\E j \in SkippedBeforeFit(k) :
                    cq.ResourceGroups[1].Flavors[j].Name \notin DOMAIN resourceFlavors)
                   => FirstPodSetFitsOn(k)
        /\ (\E g \in 1..Len(cq.ResourceGroups) :
                /\ \A j \in 1..Len(cq.ResourceGroups[g].Flavors) :
                       cq.ResourceGroups[g].Flavors[j].Name \notin DOMAIN resourceFlavors
                /\ \E i \in 1..Len(wl.PodSets) :
                       DOMAIN wl.PodSets[i].Requests \cap cq.ResourceGroups[g].CoveredResources # {})
               => RepresentativeMode(assignment) = NoFit

\* flavors nonexistent-flavor and two: the pod set lands on two in Fit
C12_Witness ==
    /\ AssignDone
    /\ Len(cq.ResourceGroups) = 1
    /\ Len(cq.ResourceGroups[1].Flavors) = 2
    /\ cq.ResourceGroups[1].Flavors[1].Name = "nonexistent-flavor"
    /\ cq.ResourceGroups[1].Flavors[2].Name = "two"
    /\ Len(assignment.PodSets) >= 1
    /\ "cpu" \in DOMAIN assignment.PodSets[1].Flavors
    /\ assignment.PodSets[1].Flavors["cpu"].Name = "two"
    /\ assignment.PodSets[1].Flavors["cpu"].Mode = Fit
    /\ RepresentativeMode(assignment) = Fit

\* the resources a pod-set assignment requests that no resource group covers
Uncovered(psa) ==
    {r \in DOMAIN psa.Requests :
        \A g \in 1..Len(cq.ResourceGroups) : r \notin cq.ResourceGroups[g].CoveredResources}

UnavailableReason(r) ==
    [msg |-> "resource unavailable in ClusterQueue", r |-> r, f |-> "", n |-> 0]

\* C13: a pod set that requests a resource no resource group covers gets no
\* flavors, its status carries "resource <name> unavailable in ClusterQueue",
\* and the representative mode of the assignment is NoFit.
C13_UncoveredResourceReason ==
    AssignDone =>
        \A i \in 1..Len(assignment.PodSets) :
            \A r \in Uncovered(assignment.PodSets[i]) :
                /\ DOMAIN assignment.PodSets[i].Flavors = {}
                /\ UnavailableReason(r) \in StatusReasons(assignment.PodSets[i])
                /\ RepresentativeMode(assignment) = NoFit

PodsDeclared == \E g \in 1..Len(cq.ResourceGroups) : "pods" \in cq.ResourceGroups[g].CoveredResources

\* the count of pod set i exceeds the nominal pods quota of every flavor
CountExceedsPods(i) ==
    \A g \in 1..Len(cq.ResourceGroups) :
        "pods" \in cq.ResourceGroups[g].CoveredResources =>
            \A j \in 1..Len(cq.ResourceGroups[g].Flavors) :
                wl.PodSets[i].Count > cq.ResourceGroups[g].Flavors[j].Resources["pods"].Nominal

\* C14: when the ClusterQueue declares pods, every pod set is fitted with the
\* request pods = its count, and gets a flavor for pods whenever it gets
\* flavors; without a cohort a pod set whose count exceeds the nominal pods
\* quota gets no flavors and the assignment is NoFit. When pods is not
\* declared the requests are those of the workload.
C14_PodsRequestInjected ==
    AssignDone =>
        /\ \A i \in 1..Len(assignment.PodSets) :
               IF PodsDeclared
               THEN /\ DOMAIN assignment.PodSets[i].Requests =
                           DOMAIN wl.PodSets[i].Requests \cup {"pods"}
                    /\ assignment.PodSets[i].Requests["pods"].Value = wl.PodSets[i].Count
                    /\ DOMAIN assignment.PodSets[i].Flavors # {} =>
                           "pods" \in DOMAIN assignment.PodSets[i].Flavors
                    /\ (~cq.Cohort.present /\ CountExceedsPods(i)) =>
                           DOMAIN assignment.PodSets[i].Flavors = {}
               ELSE DOMAIN assignment.PodSets[i].Requests = DOMAIN wl.PodSets[i].Requests
        /\ (PodsDeclared /\ ~cq.Cohort.present
                /\ \E i \in 1..Len(wl.PodSets) : CountExceedsPods(i))
               => RepresentativeMode(assignment) = NoFit

\* 3 pods of 1 cpu against 4 cpu and 2 pods of flavor one: cpu has room, the
\* pods do not, and the pod set gets no flavors
C14_Witness ==
    /\ AssignDone
    /\ PodsDeclared
    /\ Len(wl.PodSets) = 1
    /\ wl.PodSets[1].Count = GateCount
    /\ DOMAIN wl.PodSets[1].Requests = {"cpu"}
    /\ Len(cq.ResourceGroups[1].Flavors) = 1
    /\ cq.ResourceGroups[1].Flavors[1].Name = "one"
    /\ cq.ResourceGroups[1].Flavors[1].Resources["cpu"].Nominal = GateNominal
    /\ cq.ResourceGroups[1].Flavors[1].Resources["pods"].Nominal = PodsNominalShort
    /\ cq.Usage = NoQuantities
    /\ DOMAIN assignment.PodSets[1].Flavors = {}
    /\ [msg |-> "insufficient quota in ClusterQueue", r |-> "pods", f |-> "one", n |-> 0]
           \in StatusReasons(assignment.PodSets[1])
    /\ RepresentativeMode(assignment) = NoFit

----------------------------------------------------------------------------
(* Properties of the queue-order timestamp *)

\* the Evicted conditions of a workload with status True and reason
\* PodsReadyTimeout
TimeoutEvictions(w) ==
    {i \in 1..Len(w.Conditions) :
        /\ w.Conditions[i].Type = "Evicted"
        /\ w.Conditions[i].Status = "True"
        /\ w.Conditions[i].Reason = "PodsReadyTimeout"}

\* C15: GetQueueOrderTimestamp is the LastTransitionTime of the Evicted
\* condition exactly when that condition has status True and reason
\* PodsReadyTimeout, and the creation timestamp in every other case.
C15_QueueOrderTimestamp ==
    /\ \A i \in TimeoutEvictions(obj) :
           GetQueueOrderTimestamp(obj) = obj.Conditions[i].LastTransitionTime
    /\ TimeoutEvictions(obj) = {} => GetQueueOrderTimestamp(obj) = obj.CreationTimestamp

\* evicted on the PodsReady timeout after its creation: the eviction time
C15_Witness ==
    /\ \E i \in TimeoutEvictions(obj) :
           obj.Conditions[i].LastTransitionTime > obj.CreationTimestamp
    /\ GetQueueOrderTimestamp(obj) > obj.CreationTimestamp

\* C16: a PodsReady-timeout eviction (SetEvictedCondition with reason
\* PodsReadyTimeout, whatever Evicted condition the workload carried before)
\* makes the queue-order timestamp the time of that eviction.
C16_EvictionTimeOrdersQueue ==
    [][(/\ obj' = SetEvictedCondition(obj, WorkloadEvictedByPodsReadyTimeout, clock)
        /\ clock' = clock)
          => GetQueueOrderTimestamp(obj') = clock]_vars

----------------------------------------------------------------------------
(* Properties of the cycle over the ClusterQueues of a cohort *)

CpuOf(n) == workloads[n].PodSets[1].Requests["cpu"]

\* the cpu of flavor default the cohort has left
CohortFree ==
    Quantity(cache.Cohorts["all"].RequestableResources, "default", "cpu")
        - Quantity(cache.Cohorts["all"].Usage, "default", "cpu")

\* a is before b under the key: priority descending, queue-order timestamp
\* ascending, name ascending
EarlierKey(a, b) ==
    \/ workloads[a].Priority > workloads[b].Priority
    \/ /\ workloads[a].Priority = workloads[b].Priority
       /\ GetQueueOrderTimestamp(workloads[a]) < GetQueueOrderTimestamp(workloads[b])
    \/ /\ workloads[a].Priority = workloads[b].Priority
       /\ GetQueueOrderTimestamp(workloads[a]) = GetQueueOrderTimestamp(workloads[b])
       /\ NameIndex(a) < NameIndex(b)

\* a and b head two ClusterQueues of the cohort; what the cohort has left
\* takes either of them and not both
Contend(a, b) ==
    /\ \E c, d \in CQNames :
          /\ c # d
          /\ queues[c] # {} /\ a = HeadOf(queues[c], workloads)
          /\ queues[d] # {} /\ b = HeadOf(queues[d], workloads)
    /\ CpuOf(a) <= CohortFree
    /\ CpuOf(b) <= CohortFree
    /\ CpuOf(a) + CpuOf(b) > CohortFree

\* C17: when the heads of two ClusterQueues of one cohort contend for cohort
\* capacity that takes only one of them, and no PodsReady gate is closed, the
\* cycle admits the head that is earlier under the key (priority descending,
\* queue-order timestamp ascending, name ascending) and does not admit the other.
C17_EarlierKeyWinsCohortCapacity ==
    [][\A a, b \in DOMAIN workloads :
          (/\ lastCycle' # NoCycle
           /\ Contend(a, b)
           /\ EarlierKey(a, b)
           /\ config.waitForPodsReady =>
                  PodsReadyForAllAdmittedWorkloads(cache, workloads))
              => HasAdmissionAfter(a) /\ ~HasAdmissionAfter(b)]_vars

\* a cycle took the head of dev-cq, later created and of the higher priority,
\* before the head of prod-cq and admitted it alone; the head of prod-cq is
\* left pending although the cohort had room for it before the cycle
C17_Witness ==
    /\ ~config.waitForPodsReady
    /\ lastCycle.nominated = <<"w2", "w1">>
    /\ lastCycle.admitted = {"w2"}
    /\ workloads["w2"].QueueName = "dev-cq"
    /\ workloads["w2"].Priority > workloads["w1"].Priority
    /\ workloads["w2"].CreationTimestamp > workloads["w1"].CreationTimestamp
    /\ "w1" \in queues["prod-cq"]
    /\ CpuOf("w1") <= CohortFree + CpuOf("w2")
    /\ CpuOf("w1") > CohortFree

\* the statement that the PodsReady block stops at the ClusterQueue: a cycle
\* admits the only pending workload when the cohort has room for it and the
\* admitted workload that is not ready, and not timed out, is in another
\* ClusterQueue
C18_BlockStopsAtClusterQueue ==
    [][\A m \in DOMAIN workloads :
          (/\ lastCycle' # NoCycle
           /\ \E d \in CQNames :
                 /\ queues[d] = {m}
                 /\ \A c \in CQNames \ {d} : queues[c] = {}
                 /\ AdmittedIn(d) = {}
                 /\ \E c \in CQNames \ {d}, n \in DOMAIN workloads : BlocksAdmission(n, c)
           /\ CpuOf(m) <= CohortFree)
              => HasAdmissionAfter(m)]_vars

\* C18: with waitForPodsReady, while any ClusterQueue has an admitted workload
\* whose PodsReady condition is not True and that has not timed out, no step
\* admits a workload into any ClusterQueue, the other ClusterQueues of the
\* cohort included.
C18_PodsReadyBlocksEveryClusterQueue ==
    [][config.waitForPodsReady =>
          ((\E c \in CQNames, n \in DOMAIN workloads : BlocksAdmission(n, c)) =>
               \A m \in DOMAIN workloads :
                   HasAdmissionAfter(m) => workloads[m].Admission.set)]_vars

\* a cycle has just withheld the workload of dev-cq, which holds nothing and
\* has room in the cohort, behind a workload of prod-cq admitted by an earlier
\* cycle, not ready and not timed out
C18_Witness ==
    /\ config.waitForPodsReady
    /\ \E n, m \in DOMAIN workloads :
          /\ BlocksAdmission(n, "prod-cq")
          /\ n \notin lastCycle.admitted
          /\ queues["dev-cq"] = {m}
          /\ AdmittedIn("dev-cq") = {}
          /\ lastCycle.waiting = {m}
          /\ CpuOf(m) <= CohortFree

\* prod-wl n, requesting cpu 2, is admitted to prod-cq and dev-wl m, requesting
\* cpu 2, is queued in dev-cq, with waiting for PodsReady configured
ProdAdmittedDevQueued(n, m) ==
    /\ config.waitForPodsReady
    /\ n \in AdmittedIn("prod-cq")
    /\ CpuOf(n) = RequestSmall
    /\ m \in queues["dev-cq"]
    /\ CpuOf(m) = RequestSmall

\* C19: with waitForPodsReady and prod-cq and dev-cq in one cohort, Nominal cpu
\* 5 each: while prod-wl (cpu 2), admitted to prod-cq, has PodsReady not True,
\* no step admits dev-wl (cpu 2) queued in dev-cq; and from the moment
\* PodsReady of prod-wl is True, dev-wl is eventually admitted to dev-cq.
C19_DevWaitsUntilProdReady ==
    /\ [][\A n, m \in DOMAIN workloads :
             (/\ ProdAdmittedDevQueued(n, m)
              /\ ~ConditionIs(workloads[n], WorkloadPodsReady, "True"))
                => ~HasAdmissionAfter(m)]_vars
    /\ (/\ ProdAdmittedDevQueued("w1", "w2")
        /\ ConditionIs(workloads["w1"], WorkloadPodsReady, "True"))
           ~> (/\ "w2" \in DOMAIN workloads
               /\ workloads["w2"].Admission.set
               /\ workloads["w2"].Admission.ClusterQueue = "dev-cq")

\* prod-wl is ready and a cycle has just admitted dev-wl, which an earlier
\* cycle had left queued, to dev-cq
C19_Witness ==
    /\ config.waitForPodsReady
    /\ "w1" \in AdmittedIn("prod-cq")
    /\ CpuOf("w1") = RequestSmall
    /\ ConditionIs(workloads["w1"], WorkloadPodsReady, "True")
    /\ "w2" \in AdmittedIn("dev-cq")
    /\ CpuOf("w2") = RequestSmall
    /\ lastCycle.admitted = {"w2"}
    /\ AdmittedAt(workloads["w2"]) > workloads["w2"].CreationTimestamp
    /\ Quantity(cache.Cohorts["all"].Usage, "default", "cpu") = RequestSmall + RequestSmall

\* a and b, of equal priority, a created first, head two ClusterQueues of the
\* cohort, which has room for both
BothFit(a, b) ==
    /\ \E c, d \in CQNames :
          /\ c # d
          /\ queues[c] # {} /\ a = HeadOf(queues[c], workloads)
          /\ queues[d] # {} /\ b = HeadOf(queues[d], workloads)
    /\ workloads[a].Priority = workloads[b].Priority
    /\ workloads[a].CreationTimestamp < workloads[b].CreationTimestamp
    /\ CpuOf(a) + CpuOf(b) <= CohortFree

\* C20: with waitForPodsReady, when a cycle finds two pending workloads of
\* equal priority in two ClusterQueues of one cohort that has quota for both,
\* and every workload admitted before is ready, it admits the one created
\* first and withholds the other, which fits, because the first is not ready.
C20_OneAdmissionPerCycleUnderGate ==
    [][\A a, b \in DOMAIN workloads :
          (/\ config.waitForPodsReady
           /\ lastCycle' # NoCycle
           /\ PodsReadyForAllAdmittedWorkloads(cache, workloads)
           /\ BothFit(a, b))
              => /\ HasAdmissionAfter(a)
                 /\ ~ConditionIs(workloads'[a], WorkloadPodsReady, "True")
                 /\ ~HasAdmissionAfter(b)
                 /\ b \in lastCycle'.waiting]_vars

\* prod-wl and dev-wl request cpu 11 each, more than prod-cq and dev-cq have
\* together; test-cq has joined the cohort, whose total is 35, and the cycle
\* has admitted prod-wl, created first, and withheld dev-wl
C20_Witness ==
    /\ config.waitForPodsReady
    /\ Quantity(cache.Cohorts["all"].RequestableResources, "default", "cpu")
           = CQNominal + CQNominal + TestCQNominal
    /\ lastCycle = [nominated |-> <<"w1", "w2">>, admitted |-> {"w1"}, waiting |-> {"w2"}]
    /\ CpuOf("w1") = RequestLarge
    /\ CpuOf("w2") = RequestLarge
    /\ workloads["w1"].Admission.ClusterQueue = "prod-cq"
    /\ queues["dev-cq"] = {"w2"}
    /\ workloads["w1"].Priority = workloads["w2"].Priority
    /\ workloads["w1"].CreationTimestamp < workloads["w2"].CreationTimestamp
    /\ CpuOf("w2") <= CohortFree

----------------------------------------------------------------------------
(* Properties of the PodsReady timeout *)

\* the workload n is admitted since at least d: its Admitted condition is True
\* and clock is d or more past its LastTransitionTime
AdmittedFor(n, d) ==
    \E i \in 1..Len(workloads[n].Conditions) :
        /\ workloads[n].Conditions[i].Type = WorkloadAdmitted
        /\ workloads[n].Conditions[i].Status = "True"
        /\ clock - workloads[n].Conditions[i].LastTransitionTime >= d

EvictedForTimeout(w) ==
    \E i \in 1..Len(w.Conditions) :
        /\ w.Conditions[i].Type = WorkloadEvicted
        /\ w.Conditions[i].Status = "True"
        /\ w.Conditions[i].Reason = WorkloadEvictedByPodsReadyTimeout

\* C21: no step marks an admitted workload, whose pods are never ready,
\* Evicted=True before podsReadyTimeout has elapsed since the
\* LastTransitionTime of its Admitted condition; and an admitted workload
\* past the timeout is eventually marked Evicted=True with reason
\* PodsReadyTimeout, unless it finishes or is deleted before.
C21_EvictedAtTimeoutNotBefore ==
    /\ [][\A n \in DOMAIN workloads \cap DOMAIN workloads' :
             (/\ ~ConditionIs(workloads[n], WorkloadEvicted, "True")
              /\ ConditionIs(workloads'[n], WorkloadEvicted, "True"))
                => /\ AdmittedFor(n, podsReadyTimeout)
                   /\ EvictedForTimeout(workloads'[n])]_vars
    /\ \A n \in {WorkloadNames[i] : i \in 1..Len(WorkloadNames)} :
           (/\ n \in DOMAIN workloads
            /\ AdmittedFor(n, podsReadyTimeout))
               ~> (\/ n \notin DOMAIN workloads
                   \/ ConditionIs(workloads[n], WorkloadFinished, "True")
                   \/ EvictedForTimeout(workloads[n]))

\* a workload admitted at time 0 has just been marked Evicted=True, at the
\* time the timeout elapsed, and still holds its admission
C21_Witness ==
    /\ clock = podsReadyTimeout
    /\ \E n \in DOMAIN workloads :
          /\ workloads[n].Admission.set
          /\ EvictedForTimeout(workloads[n])
          /\ ~ConditionIs(workloads[n], WorkloadFinished, "True")
          /\ AdmittedFor(n, podsReadyTimeout)
          /\ ~AdmittedFor(n, podsReadyTimeout + 1)


\* a workload that has been admitted at some time: it carries an Admitted
\* condition, True while admitted and False once its eviction is finalised,
\* or it is finished
WasAdmitted(n) ==
    /\ n \in DOMAIN workloads
    /\ \E i \in 1..Len(workloads[n].Conditions) :
           workloads[n].Conditions[i].Type \in {WorkloadAdmitted, WorkloadFinished}

\* C23: of three equal-priority workloads w1, w2, w3 each requesting the
\* whole nominal quota, created in this order before admission starts and
\* never ready, one is admitted at a time, when no other holds an unfinished
\* admission; the first admitted is w1, w2 is
\* admitted only after w1 and w3 only after w2, and w1, once evicted for the
\* timeout, is admitted again only after w2 and w3 have been admitted
C23_EvictedWorkloadGoesToTheEnd ==
    [][\A n \in DOMAIN workloads :
          (~workloads[n].Admission.set /\ HasAdmissionAfter(n))
              => /\ \A m \in DOMAIN workloads :
                        workloads[m].Admission.set
                            => ConditionIs(workloads[m], WorkloadFinished, "True")
                 /\ lastCycle'.admitted = {n}
                 /\ n = "w2" => WasAdmitted("w1")
                 /\ n = "w3" => WasAdmitted("w2")
                 /\ (n = "w1" /\ EvictedForTimeout(workloads["w1"]))
                        => WasAdmitted("w2") /\ WasAdmitted("w3")]_vars

\* a workload admitted again after its eviction for the timeout: the
\* admission has reset its Evicted condition to False
ReadmittedAfterTimeout(n) ==
    /\ workloads[n].Admission.set
    /\ ConditionIs(workloads[n], WorkloadAdmitted, "True")
    /\ ~ConditionIs(workloads[n], WorkloadFinished, "True")
    /\ \E i \in 1..Len(workloads[n].Conditions) :
           /\ workloads[n].Conditions[i].Type = WorkloadEvicted
           /\ workloads[n].Conditions[i].Status = "False"
           /\ workloads[n].Conditions[i].Reason = WorkloadEvictedByPodsReadyTimeout

\* w1 has been evicted for the timeout and is admitted again, after w2 and
\* w3 were admitted and finished
C23_Witness ==
    /\ DOMAIN workloads = {"w1", "w2", "w3"}
    /\ ReadmittedAfterTimeout("w1")
    /\ ConditionIs(workloads["w2"], WorkloadFinished, "True")
    /\ ConditionIs(workloads["w3"], WorkloadFinished, "True")
    /\ workloads["w1"].CreationTimestamp < workloads["w2"].CreationTimestamp
    /\ workloads["w2"].CreationTimestamp < workloads["w3"].CreationTimestamp


\* a workload evicted for the timeout whose eviction is finalised: without
\* admission and back in its queue
QueuedAfterTimeout(n) ==
    /\ n \in DOMAIN workloads
    /\ ~workloads[n].Admission.set
    /\ EvictedForTimeout(workloads[n])
    /\ n \in queues[workloads[n].QueueName]

\* the cpu of flavor default in use in the cohort
CohortUsed == Quantity(cache.Cohorts["all"].Usage, "default", "cpu")

EvictionPending(n) ==
    /\ n \in DOMAIN workloads
    /\ workloads[n].Admission.set
    /\ ConditionIs(workloads[n], WorkloadEvicted, "True")
    /\ ~ConditionIs(workloads[n], WorkloadFinished, "True")

\* the cpu of flavor default in use in ClusterQueue c
CqUsed(c) == Quantity(cache.ClusterQueues[c].Usage, "default", "cpu")

\* C25: while a workload is marked Evicted and its eviction is not finalised,
\* the cache holds it in its ClusterQueue, with usage no less than its request,
\* and it is not queued; marking it leaves cache and queues as they are; the
\* step that takes it from the cache is its finalisation, which clears the
\* admission, sets Admitted to False, lowers the usage of the ClusterQueue by
\* its request and queues it again, unless the workload is finished or deleted
\* in that step.
C25_UsageHeldUntilFinalisation ==
    /\ [](\A n \in DOMAIN workloads :
             EvictionPending(n)
                 => /\ n \in DOMAIN cache.ClusterQueues[workloads[n].QueueName].Workloads
                    /\ CqUsed(workloads[n].QueueName) >= CpuOf(n)
                    /\ \A c \in CQNames : n \notin queues[c])
    /\ [][\A n \in DOMAIN workloads :
             /\ (/\ ~ConditionIs(workloads[n], WorkloadEvicted, "True")
                 /\ n \in DOMAIN workloads'
                 /\ ConditionIs(workloads'[n], WorkloadEvicted, "True"))
                    => /\ cache' = cache
                       /\ queues' = queues
                       /\ workloads'[n].Admission = workloads[n].Admission
             /\ (/\ EvictionPending(n)
                 /\ n \notin DOMAIN cache'.ClusterQueues[workloads[n].QueueName].Workloads)
                    => \/ n \notin DOMAIN workloads'
                       \/ ConditionIs(workloads'[n], WorkloadFinished, "True")
                       \/ /\ ~workloads'[n].Admission.set
                          /\ ConditionIs(workloads'[n], WorkloadAdmitted, "False")
                          /\ ConditionIs(workloads'[n], WorkloadEvicted, "True")
                          /\ n \in queues'[workloads[n].QueueName]
                          /\ CqUsed(workloads[n].QueueName)'
                                 = CqUsed(workloads[n].QueueName) - CpuOf(n)]_vars

\* the eviction of the only workload has been finalised: prod-cq has no
\* usage, no admitted workload and one pending workload
C25_Witness ==
    \E n \in DOMAIN workloads :
        /\ DOMAIN workloads = {n}
        /\ QueuedAfterTimeout(n)
        /\ ConditionIs(workloads[n], WorkloadAdmitted, "False")
        /\ CqUsed("prod-cq") = 0
        /\ AdmittedIn("prod-cq") = {}
        /\ queues["prod-cq"] = {n}


\* C26: under the gate, the deletion of an admitted workload the cache holds
\* takes it from the cache and lowers the usage of its ClusterQueue and of the
\* cohort by its request; when it was the only one held, no admitted workload
\* is left to keep the gate closed; and a queued workload that is then the
\* only workload, no other one being created, and whose request fits, is
\* eventually admitted.
C26_DeleteReleasesAndUnblocks ==
    /\ [][\A n \in DOMAIN workloads :
             (n \notin DOMAIN workloads' /\ n \in CachedWorkloads)
                 => /\ n \notin CachedWorkloads'
                    /\ \A c \in CQNames :
                           CqUsed(c)' = CqUsed(c)
                               - (IF c = workloads[n].QueueName THEN CpuOf(n) ELSE 0)
                    /\ CohortUsed' = CohortUsed - CpuOf(n)
                    /\ CachedWorkloads = {n}
                           => /\ CohortUsed' = 0
                              /\ PodsReadyForAllAdmittedWorkloads(cache', workloads')]_vars
    /\ \A m \in {WorkloadNames[i] : i \in 1..Len(WorkloadNames)} :
           (/\ DOMAIN workloads = {m}
            /\ created = Len(WorkloadNames)
            /\ m \in queues[workloads[m].QueueName]
            /\ CachedWorkloads = {}
            /\ CpuOf(m) = RequestSmall)
               ~> (\/ m \notin DOMAIN workloads
                   \/ workloads[m].Admission.set)

\* the workload of prod-cq has been deleted before the timeout could elapse,
\* and the workload of dev-cq, the only one left, has just been admitted
C26_Witness ==
    /\ clock < podsReadyTimeout
    /\ created = Len(WorkloadNames)
    /\ DOMAIN workloads = {WorkloadNames[Len(WorkloadNames)]}
    /\ lastCycle # NoCycle
    /\ lastCycle.admitted = DOMAIN workloads
    /\ \A m \in DOMAIN workloads :
           /\ workloads[m].QueueName = "dev-cq"
           /\ workloads[m].Admission.set
           /\ workloads[m].Conditions = <<Condition(WorkloadAdmitted, "True", "Admitted", clock)>>
    /\ CqUsed("dev-cq") = RequestSmall
    /\ CqUsed("prod-cq") = 0


\* n is admitted by this step
AdmittedByStep(n) ==
    /\ n \in DOMAIN workloads
    /\ ~workloads[n].Admission.set
    /\ HasAdmissionAfter(n)

\* C27: a cycle admits two workloads of different ClusterQueues of the cohort
\* only when the capacity the cohort had left before the cycle covers the
\* requests of both; after every cycle the usage of the cohort is within what
\* the cohort can give.
C27_StagedUsageSeenByLaterHeads ==
    [][lastCycle' # NoCycle =>
          /\ \A a, b \in DOMAIN workloads :
                 (/\ a # b
                  /\ workloads[a].QueueName # workloads[b].QueueName
                  /\ AdmittedByStep(a)
                  /\ AdmittedByStep(b))
                     => CpuOf(a) + CpuOf(b) <= CohortFree
          /\ CohortFree' >= 0]_vars

\* without the gate, a cycle tried the heads of prod-cq and dev-cq in this
\* order; each fitted the capacity the cohort had left before the cycle, which
\* did not cover both; the first is admitted and the second is left queued
C27_Witness ==
    /\ ~config.waitForPodsReady
    /\ lastCycle.nominated = <<"w1", "w2">>
    /\ lastCycle.admitted = {"w1"}
    /\ workloads["w1"].QueueName = "prod-cq"
    /\ workloads["w2"].QueueName = "dev-cq"
    /\ "w2" \in queues["dev-cq"]
    /\ CpuOf("w2") <= CohortFree + CpuOf("w1")
    /\ CpuOf("w2") > CohortFree


----------------------------------------------------------------------------
(* Properties of NewInfo *)

\* the integer NewInfo keeps of a recorded quantity: milli-units for cpu,
\* units for any other resource
RecordedValue(r, q) ==
    IF r = "cpu" THEN (IF q.Scale = "milli" THEN q.Value ELSE q.Value * 1000)
    ELSE (IF q.Scale = "milli" THEN (q.Value + 999) \div 1000 ELSE q.Value)

\* C28: the Info of a workload without admission has no ClusterQueue and one
\* entry per pod set of the spec, in order, with each per-pod request
\* multiplied by the count of the pod set; the Info of an admitted workload
\* has the ClusterQueue of the admission and one entry per pod-set assignment
\* of the admission, in order, with the flavors of the assignment and its
\* recorded ResourceUsage, not multiplied by any count.
C28_NewInfoTotalRequests ==
    wInfo.done =>
        IF ~obj.Admission.set
        THEN /\ wInfo.ClusterQueue = ""
             /\ Len(wInfo.TotalRequests) = Len(obj.PodSets)
             /\ \A i \in 1..Len(obj.PodSets) :
                    /\ wInfo.TotalRequests[i].Name = obj.PodSets[i].Name
                    /\ DOMAIN wInfo.TotalRequests[i].Requests = DOMAIN obj.PodSets[i].Requests
                    /\ \A r \in DOMAIN obj.PodSets[i].Requests :
                           wInfo.TotalRequests[i].Requests[r]
                               = obj.PodSets[i].Requests[r] * obj.PodSets[i].Count
        ELSE /\ wInfo.ClusterQueue = obj.Admission.ClusterQueue
             /\ Len(wInfo.TotalRequests) = Len(obj.Admission.PodSetAssignments)
             /\ \A i \in 1..Len(obj.Admission.PodSetAssignments) :
                    LET psa == obj.Admission.PodSetAssignments[i]
                    IN  /\ wInfo.TotalRequests[i].Name = psa.Name
                        /\ wInfo.TotalRequests[i].Flavors = psa.Flavors
                        /\ DOMAIN wInfo.TotalRequests[i].Requests = DOMAIN psa.ResourceUsage
                        /\ \A r \in DOMAIN psa.ResourceUsage :
                               wInfo.TotalRequests[i].Requests[r]
                                   = RecordedValue(r, psa.ResourceUsage[r])

\* the Info of a workload of two pod sets, the second of count 3, admitted
\* with one assignment whose usage differs from the requests of the spec: one
\* entry, with the usage of the admission
C28_Witness ==
    /\ wInfo.done
    /\ obj.Admission.set
    /\ Len(obj.PodSets) = 2
    /\ obj.PodSets[2].Count = 3
    /\ Len(wInfo.TotalRequests) = 1
    /\ wInfo.ClusterQueue = "foo"
    /\ wInfo.TotalRequests[1].Requests["cpu"] = 1000
    /\ wInfo.TotalRequests[1].Requests["cpu"] # obj.PodSets[1].Requests["cpu"]


----------------------------------------------------------------------------
(* Properties of the PodSetAssignments AssignFlavors returns *)

\* C30: in every PodSetAssignment of the Assignment AssignFlavors returns,
\* Flavors and Status are not both empty, whatever the pod set requests;
\* empty Flavors go with representative mode NoFit, and an empty Status with
\* representative mode Fit and mode Fit of every assigned flavor.
C30_FlavorsAndStatusNotBothEmpty ==
    apc = "done" =>
        \A i \in 1..Len(assignment.PodSets) :
            LET psa == assignment.PodSets[i]
            IN  /\ ~(DOMAIN psa.Flavors = {} /\ ~psa.Status.set)
                /\ DOMAIN psa.Flavors = {} => psRepresentativeMode(psa) = NoFit
                /\ ~psa.Status.set =>
                       /\ psRepresentativeMode(psa) = Fit
                       /\ \A r \in DOMAIN psa.Flavors : psa.Flavors[r].Mode = Fit


\* pod set i has the malformed affinity, requests cpu, and a flavor of the
\* group of cpu is in the catalogue without a taint the pod set does not
\* tolerate: the selector is evaluated against the labels of that flavor
SelectorEvaluated(i) ==
    /\ wl.PodSets[i].Spec.Affinity = MalformedAffinity
    /\ "cpu" \in DOMAIN wl.PodSets[i].Requests
    /\ \E j \in 1..Len(cq.ResourceGroups[1].Flavors) :
           LET name == cq.ResourceGroups[1].Flavors[j].Name
           IN  /\ name \in DOMAIN resourceFlavors
               /\ ~HasUntoleratedTaint(name, wl.PodSets[i].Spec)

\* C29: when the selector of a pod set cannot be evaluated against the labels
\* of a flavor, the PodSetAssignment of that pod set is the last one of the
\* Assignment, has no flavors and an error status; the Assignment has
\* representative mode NoFit, no borrowing, its Message is the one of a
\* failure naming that pod set, and a cycle that nominates the workload with
\* it leaves the workload as it is; this is so in every order of iteration.
C29_SelectorErrorStopsAssignment ==
    apc = "done" =>
        /\ \A i \in 1..Len(assignment.PodSets) :
               SelectorEvaluated(i) =>
                   /\ assignment.PodSets[i].Status.set
                   /\ assignment.PodSets[i].Status.err
        /\ \A i \in 1..Len(assignment.PodSets) :
               (assignment.PodSets[i].Status.set /\ assignment.PodSets[i].Status.err) =>
                   /\ wl.PodSets[i].Spec.Affinity = MalformedAffinity
                   /\ i = Len(assignment.PodSets)
                   /\ DOMAIN assignment.PodSets[i].Flavors = {}
                   /\ psRepresentativeMode(assignment.PodSets[i]) = NoFit
                   /\ RepresentativeMode(assignment) = NoFit
                   /\ assignment.TotalBorrow = NoQuantities
                   /\ Message(assignment)
                          = [text |-> "failed to assign flavors to pod set",
                             parts |-> <<[Name |-> wl.PodSets[i].Name, err |-> TRUE]>>]
                   /\ nominate([waiting |-> {}], "w1", assignment, TRUE, 0) = [waiting |-> {}]

\* the first pod set got flavor one, the second has the malformed affinity:
\* the Assignment ends at the second with the error, and a third is not there
C29_Witness ==
    /\ apc = "done"
    /\ Len(wl.PodSets) = 2
    /\ Len(assignment.PodSets) = 2
    /\ wl.PodSets[2].Spec.Affinity = MalformedAffinity
    /\ "cpu" \in DOMAIN assignment.PodSets[1].Flavors
    /\ assignment.PodSets[1].Flavors["cpu"].Name = "one"
    /\ assignment.PodSets[2].Status.err
    /\ DOMAIN assignment.PodSets[2].Flavors = {}
    /\ RepresentativeMode(assignment) = NoFit
    /\ Message(assignment).parts[1].Name = "worker"

----------------------------------------------------------------------------
(* Properties of the search over the flavors of a resource group *)

\* what the pod sets before pod set i of the assignment request of resource r
\* on flavor f
UsageBefore(i, f, r) == AssignedTotal(SubSeq(assignment.PodSets, 1, i - 1), 1, f, r)

\* the resources of resource group rg that pod set i is fitted for
GroupRequests(i, rg) == DOMAIN FittedRequests(i) \cap rg.CoveredResources

\* flavor j of rg is not considered for pod set i: it is missing from the
\* catalogue, has a taint the pod set does not tolerate, or does not match
\* the pod set's node selector and affinity
SkippedFlavor(i, rg, j) ==
    LET name == rg.Flavors[j].Name
    IN  \/ name \notin DOMAIN resourceFlavors
        \/ HasUntoleratedTaint(name, wl.PodSets[i].Spec)
        \/ ~SelectorMatch(flavorSelector(wl.PodSets[i].Spec, LabelKeys(rg, resourceFlavors)),
                          resourceFlavors[name].NodeLabels).match

\* mode of resource r of pod set i on flavor j of rg, the requests of the
\* earlier pod sets on that flavor included
ResourceModeOn(i, rg, j, r) ==
    fitsResourceQuota(rg.Flavors[j].Name, r,
                      FittedRequests(i)[r] + UsageBefore(i, rg.Flavors[j].Name, r),
                      cq, rg.Flavors[j].Resources[r]).mode

\* mode of flavor j of rg for pod set i: the minimum over the requested
\* resources of the group, NoFit for a flavor that is not considered
ModeOnFlavor(i, rg, j) ==
    IF SkippedFlavor(i, rg, j) THEN NoFit
    ELSE IF \E r \in GroupRequests(i, rg) : ResourceModeOn(i, rg, j, r) = NoFit THEN NoFit
    ELSE IF \E r \in GroupRequests(i, rg) : ResourceModeOn(i, rg, j, r) = Preempt THEN Preempt
    ELSE Fit

\* index of the first declared flavor of rg in mode Fit for pod set i, else of
\* the first in mode Preempt, else 0
ExpectedFlavor(i, rg) ==
    LET fits == {j \in 1..Len(rg.Flavors) : ModeOnFlavor(i, rg, j) = Fit}
        preempts == {j \in 1..Len(rg.Flavors) : ModeOnFlavor(i, rg, j) = Preempt}
    IN  IF fits # {} THEN CHOOSE j \in fits : \A k \in fits : j <= k
        ELSE IF preempts # {} THEN CHOOSE j \in preempts : \A k \in preempts : j <= k
        ELSE 0

\* the resource groups of which pod set i requests a resource
RequestedGroups(i) ==
    {g \in 1..Len(cq.ResourceGroups) : GroupRequests(i, cq.ResourceGroups[g]) # {}}

\* the status of the pod-set assignment names every flavor of rg and no other
ReportsGroup(psa, rg) ==
    /\ \A j \in 1..Len(rg.Flavors) : \E x \in StatusReasons(psa) : x.f = rg.Flavors[j].Name
    /\ \A x \in StatusReasons(psa) : \E j \in 1..Len(rg.Flavors) : x.f = rg.Flavors[j].Name

\* C31: for every pod set and every resource group it requests from, a pod
\* set that has flavors has, for the group's resources, the first declared
\* flavor whose mode (minimum over the group's requested resources) is Fit,
\* or, when none is Fit, the first whose mode is Preempt; when every flavor
\* of a group is NoFit or skipped the pod set has no flavor at all, is NoFit,
\* and its status holds the reasons accumulated over the flavors of a group
\* that failed (or names an uncovered resource); a pod set without flavors
\* has such a group, an uncovered resource or an error.
C31_FirstFitElseFirstPreempt ==
    AssignDone =>
        \A i \in 1..Len(assignment.PodSets) :
            LET psa == assignment.PodSets[i]
                failed == {g \in RequestedGroups(i) :
                              ExpectedFlavor(i, cq.ResourceGroups[g]) = 0}
            IN  /\ DOMAIN psa.Flavors # {} =>
                       \A g \in RequestedGroups(i) :
                           LET rg == cq.ResourceGroups[g]
                               e == ExpectedFlavor(i, rg)
                           IN  /\ e # 0
                               /\ \A r \in GroupRequests(i, rg) :
                                      /\ r \in DOMAIN psa.Flavors
                                      /\ psa.Flavors[r].Name = rg.Flavors[e].Name
                                      /\ psa.Flavors[r].Mode = ResourceModeOn(i, rg, e, r)
                /\ (failed # {} /\ ~psa.Status.err) =>
                       /\ DOMAIN psa.Flavors = {}
                       /\ psRepresentativeMode(psa) = NoFit
                       /\ psa.Status.set
                       /\ \/ \E g \in failed : ReportsGroup(psa, cq.ResourceGroups[g])
                          \/ \E r \in Uncovered(psa) :
                                 StatusReasons(psa) = {UnavailableReason(r)}
                /\ (DOMAIN psa.Flavors = {} /\ DOMAIN psa.Requests # {}) =>
                       failed # {} \/ Uncovered(psa) # {} \/ psa.Status.err

\* flavor one can only be had by preemption, flavor two declared after it
\* fits: the pod set gets flavor two
C31_Witness ==
    /\ AssignDone
    /\ Len(cq.ResourceGroups) = 1
    /\ Len(cq.ResourceGroups[1].Flavors) = 2
    /\ Len(assignment.PodSets) >= 1
    /\ ModeOnFlavor(1, cq.ResourceGroups[1], 1) = Preempt
    /\ ModeOnFlavor(1, cq.ResourceGroups[1], 2) = Fit
    /\ "cpu" \in DOMAIN assignment.PodSets[1].Flavors
    /\ assignment.PodSets[1].Flavors["cpu"].Name = cq.ResourceGroups[1].Flavors[2].Name
    /\ assignment.PodSets[1].Flavors["cpu"].Mode = Fit

----------------------------------------------------------------------------
(* Properties of the flavor selector *)

\* the label keys of the flavors of rg that the catalogue holds
GroupLabelKeys(rg) ==
    UNION {DOMAIN resourceFlavors[rg.Flavors[j].Name].NodeLabels :
              j \in {k \in 1..Len(rg.Flavors) : rg.Flavors[k].Name \in DOMAIN resourceFlavors}}

\* an In or NotIn expression holds of the labels
ExpressionHolds(e, labels) ==
    IF e.Operator = "In" THEN e.Key \in DOMAIN labels /\ labels[e.Key] \in e.Values
    ELSE e.Key \notin DOMAIN labels \/ labels[e.Key] \notin e.Values

\* the labels satisfy the node-selector entries and the required affinity of
\* the pod spec as far as they are on the keys: every selector entry on a key
\* holds, and, unless some term has no expression on a key, some term has all
\* its expressions on the keys holding
AcceptedOnKeys(spec, keys, labels) ==
    /\ \A k \in DOMAIN spec.NodeSelector \cap keys :
           k \in DOMAIN labels /\ labels[k] = spec.NodeSelector[k]
    /\ \/ ~spec.Affinity.set
       \/ \E t \in 1..Len(spec.Affinity.terms) :
              \A x \in 1..Len(spec.Affinity.terms[t]) :
                  spec.Affinity.terms[t][x].Key \notin keys
       \/ \E t \in 1..Len(spec.Affinity.terms) :
              \A x \in 1..Len(spec.Affinity.terms[t]) :
                  spec.Affinity.terms[t][x].Key \in keys
                      => ExpressionHolds(spec.Affinity.terms[t][x], labels)

\* the flavors of rg that are in the catalogue and accepted for pod set i
AcceptedFlavors(i, rg) ==
    {j \in 1..Len(rg.Flavors) :
        /\ rg.Flavors[j].Name \in DOMAIN resourceFlavors
        /\ AcceptedOnKeys(wl.PodSets[i].Spec, GroupLabelKeys(rg),
                          resourceFlavors[rg.Flavors[j].Name].NodeLabels)}

AffinityReason(f) == [msg |-> "doesn't match node affinity", r |-> "", f |-> f, n |-> 0]

\* C32: with quota to spare on every flavor, a pod set gets the first
\* declared flavor of the catalogue whose labels satisfy the node-selector
\* entries and the required affinity expressions on label keys of the group's
\* flavors; entries and expressions on other keys reject nothing, and an
\* affinity with a term without expression on such a key rejects nothing;
\* when no flavor is accepted the pod set has no flavors and its status says
\* "doesn't match node affinity" of exactly the flavors not accepted.
C32_MatchingUsesGroupLabelKeysOnly ==
    AssignDone =>
        \A i \in 1..Len(assignment.PodSets) :
            LET psa == assignment.PodSets[i]
                rg == cq.ResourceGroups[1]
                ok == AcceptedFlavors(i, rg)
                known == {j \in 1..Len(rg.Flavors) : rg.Flavors[j].Name \in DOMAIN resourceFlavors}
            IN  IF ok # {}
                THEN /\ DOMAIN psa.Flavors = {"cpu"}
                     /\ psa.Flavors["cpu"].Name =
                            rg.Flavors[CHOOSE j \in ok : \A k \in ok : j <= k].Name
                     /\ psa.Flavors["cpu"].Mode = Fit
                ELSE /\ DOMAIN psa.Flavors = {}
                     /\ {x \in StatusReasons(psa) : x.msg = "doesn't match node affinity"}
                            = {AffinityReason(rg.Flavors[j].Name) : j \in known}

\* the test "node affinity fits any flavor": the first term is on another
\* key, the second selects flavor two, and the pod set gets flavor one
C32_Witness ==
    /\ AssignDone
    /\ Len(cq.ResourceGroups[1].Flavors) = 2
    /\ cq.ResourceGroups[1].Flavors[1].Name = "one"
    /\ cq.ResourceGroups[1].Flavors[2].Name = "two"
    /\ wl.PodSets[1].Spec.Affinity.set
    /\ wl.PodSets[1].Spec.Affinity.terms = << <<IgnoredIn>>, <<TypeIn("two")>> >>
    /\ "ignored1" \in DOMAIN wl.PodSets[1].Spec.NodeSelector
    /\ "type" \notin DOMAIN wl.PodSets[1].Spec.NodeSelector
    /\ assignment.PodSets[1].Flavors["cpu"].Name = "one"

----------------------------------------------------------------------------
(* Properties of the usage of earlier pod sets *)

\* the quota flavor f declares for resource r
QuotaOf(f, r) == (CHOOSE d \in DeclaredQuotas(cq) : d.f = f /\ d.r = r).quota

\* the workload cut after its first n pod sets
FirstPodSets(w, n) == [PodSets |-> SubSeq(w.PodSets, 1, n)]

\* the flavor names and modes of a pod-set assignment
NamesAndModes(psa) ==
    [r \in DOMAIN psa.Flavors |-> [Name |-> psa.Flavors[r].Name, Mode |-> psa.Flavors[r].Mode]]

\* C33: the mode and the borrow a pod set records for resource r on its
\* flavor f are those of the fit check of its own request plus the requests
\* for r of the earlier pod sets that were assigned f, in mode Fit or Preempt;
\* and the flavors of the pod sets before the last are those the workload
\* would get without its last pod set: earlier choices are not revisited.
C33_EarlierPodSetsCountOnTheirFlavor ==
    AssignDone =>
        /\ \A k \in 1..Len(assignment.PodSets) :
               \A r \in DOMAIN assignment.PodSets[k].Flavors :
                   LET fl == assignment.PodSets[k].Flavors[r]
                       res == fitsResourceQuota(fl.Name, r,
                                  FittedRequests(k)[r] + UsageBefore(k, fl.Name, r),
                                  cq, QuotaOf(fl.Name, r))
                   IN  fl.Mode = res.mode /\ fl.borrow = res.borrow
        /\ Len(assignment.PodSets) = 2 =>
               \E o \in Orders(wl, cq) :
                   LET alone == AssignFlavors(FirstPodSets(wl, 1), resourceFlavors, cq, o)
                   IN  /\ Len(alone.PodSets) = 1
                       /\ NamesAndModes(alone.PodSets[1]) = NamesAndModes(assignment.PodSets[1])

\* the second pod set would fit on flavor one by itself; with the request of
\* the first pod set, which is on flavor one, it does not, and gets flavor two
C33_Witness ==
    /\ AssignDone
    /\ Len(assignment.PodSets) = 2
    /\ \A k \in 1..2 : "cpu" \in DOMAIN assignment.PodSets[k].Flavors
    /\ assignment.PodSets[1].Flavors["cpu"].Name = "one"
    /\ assignment.PodSets[2].Flavors["cpu"].Name = "two"
    /\ assignment.PodSets[2].Flavors["cpu"].Mode = Fit
    /\ fitsResourceQuota("one", "cpu", FittedRequests(2)["cpu"], cq,
                         QuotaOf("one", "cpu")).mode = Fit
    /\ fitsResourceQuota("one", "cpu", FittedRequests(2)["cpu"] + UsageBefore(2, "one", "cpu"),
                         cq, QuotaOf("one", "cpu")).mode # Fit

----------------------------------------------------------------------------
(* Properties of the mode of a fit check that is not Fit *)

\* C34: a fit check that does not return Fit returns Preempt exactly when the
\* checked value is at most the Nominal quota and NoFit otherwise, whatever
\* the cohort's capacity and usage and whatever the borrowing limit; a value
\* above Nominal that the cohort cannot cover is NoFit.
C34_PreemptIffWithinNominal ==
    (FitDone /\ fitOut.mode # Fit) =>
        /\ fitOut.mode \in {Preempt, NoFit}
        /\ fitOut.mode = Preempt <=> fitIn.val <= fitIn.Nominal
        /\ fitOut.borrow = 0
        /\ fitOut.status.set

\* as in the test "not enough space to borrow": the value is above Nominal,
\* the cohort has requestable quota above it but too little unused: NoFit
C34_Witness ==
    /\ FitDone
    /\ fitIn.cohort.present
    /\ ~fitIn.BorrowingLimit.set
    /\ fitIn.val > fitIn.Nominal
    /\ fitIn.cohort.requestable > fitIn.val
    /\ fitIn.cohort.used + fitIn.val = fitIn.cohort.requestable + 1
    /\ fitOut.mode = NoFit
    /\ fitOut.status.reasons =
           <<Reason("insufficient unused quota in cohort", fitIn.rName, fitIn.fName, 1)>>

----------------------------------------------------------------------------
(* Properties of TotalBorrow *)

\* the flavors and resources some pod set of the assignment is assigned
AssignedQuotas == {d \in DeclaredQuotas(cq) : Assigned(assignment.PodSets, d.f, d.r)}

\* usage of the ClusterQueue plus the requests of all pod sets assigned
\* flavor f for resource r, less the Nominal quota
BorrowOf(d) ==
    Quantity(cq.Usage, d.f, d.r) + AssignedTotal(assignment.PodSets, 1, d.f, d.r)
        - d.quota.Nominal

\* the borrow recorded in pod set i for resource r on flavor f, 0 if it is not
\* assigned f
PodSetBorrow(i, f, r) ==
    IF r \in DOMAIN assignment.PodSets[i].Flavors /\ assignment.PodSets[i].Flavors[r].Name = f
    THEN assignment.PodSets[i].Flavors[r].borrow ELSE 0

\* C35: in an assignment whose representative mode is Fit, for every flavor
\* and resource some pod set is assigned, TotalBorrow[f][r] is max(0, usage
\* of the ClusterQueue + requests of all pod sets assigned f - Nominal), not
\* the sum of the pod sets' borrows; TotalBorrow has an entry only where that
\* value is positive, and no entry at all when nothing is borrowed.
C35_TotalBorrowIsNotAccumulated ==
    (AssignDone /\ RepresentativeMode(assignment) = Fit) =>
        /\ \A d \in AssignedQuotas :
               Quantity(assignment.TotalBorrow, d.f, d.r)
                   = (IF BorrowOf(d) > 0 THEN BorrowOf(d) ELSE 0)
        /\ \A f \in DOMAIN assignment.TotalBorrow :
               /\ DOMAIN assignment.TotalBorrow[f] # {}
               /\ \A r \in DOMAIN assignment.TotalBorrow[f] :
                      /\ assignment.TotalBorrow[f][r] > 0
                      /\ \E d \in AssignedQuotas : d.f = f /\ d.r = r
        /\ (\A d \in AssignedQuotas : BorrowOf(d) <= 0) =>
               assignment.TotalBorrow = NoQuantities

\* two pod sets on flavor one both borrow: the total is the borrow of the
\* second, less than the sum of the two
C35_Witness ==
    /\ AssignDone
    /\ RepresentativeMode(assignment) = Fit
    /\ Len(assignment.PodSets) = 2
    /\ PodSetBorrow(1, "one", "cpu") > 0
    /\ PodSetBorrow(2, "one", "cpu") > PodSetBorrow(1, "one", "cpu")
    /\ Quantity(assignment.TotalBorrow, "one", "cpu") = PodSetBorrow(2, "one", "cpu")

----------------------------------------------------------------------------
(* Properties of an assignment that fails *)

\* pod set i of the assignment cannot be given flavors: a resource group it
\* requests from has no flavor in mode Fit or Preempt, a resource it requests
\* is in no resource group, or the search ended in an error
PodSetFails(i) ==
    \/ \E g \in RequestedGroups(i) : ExpectedFlavor(i, cq.ResourceGroups[g]) = 0
    \/ Uncovered(assignment.PodSets[i]) # {}
    \/ assignment.PodSets[i].Status.set /\ assignment.PodSets[i].Status.err

\* C36: the assignment ends with the first pod set that cannot be given
\* flavors: no pod set before the last one fails, the pod sets of the workload
\* after a failing one are absent, the failing pod set has no flavor of any
\* resource group, TotalBorrow has no entry and the representative mode is
\* NoFit; an assignment shorter than the workload ends with a failing pod set.
C36_StopsAtFirstFailingPodSet ==
    AssignDone =>
        /\ Len(assignment.PodSets) <= Len(wl.PodSets)
        /\ \A i \in 1..Len(assignment.PodSets) :
               /\ assignment.PodSets[i].Name = wl.PodSets[i].Name
               /\ PodSetFails(i) =>
                      /\ i = Len(assignment.PodSets)
                      /\ DOMAIN assignment.PodSets[i].Flavors = {}
                      /\ assignment.TotalBorrow = NoQuantities
                      /\ RepresentativeMode(assignment) = NoFit
        /\ Len(assignment.PodSets) < Len(wl.PodSets) =>
               PodSetFails(Len(assignment.PodSets))

\* the first of two pod sets requests cpu and memory of two resource groups;
\* memory has a flavor that fits, cpu has none: no flavor is kept and the
\* second pod set is absent
C36_Witness ==
    /\ AssignDone
    /\ Len(wl.PodSets) = 2
    /\ Len(assignment.PodSets) = 1
    /\ Len(cq.ResourceGroups) = 2
    /\ DOMAIN assignment.PodSets[1].Requests = {"cpu", "memory"}
    /\ ExpectedFlavor(1, cq.ResourceGroups[1]) = 0
    /\ ModeOnFlavor(1, cq.ResourceGroups[2], 1) = Fit
    /\ DOMAIN assignment.PodSets[1].Flavors = {}
    /\ RepresentativeMode(assignment) = NoFit

----------------------------------------------------------------------------
(* Properties of SetAdmission after an eviction *)

\* the workload carries Evicted=True and has no admission
EvictedAndCleared(w) == HasEvictedTrue(w) /\ ~w.Admission.set

\* C37: a step of SetAdmission leaves the workload with an admission, with
\* Admitted=True and without Evicted=True: an Evicted condition it carried is
\* kept with status False, so that the queue-order timestamp is the creation
\* timestamp again. Evicted=True appears only by SetEvictedCondition, and a
\* workload that carries Evicted=True without admission stays so until a
\* step of SetAdmission.
C37_SetAdmissionResetsEvicted ==
    [][/\ DoSetAdmission =>
              /\ obj'.Admission.set
              /\ IsAdmitted(obj')
              /\ ~HasEvictedTrue(obj')
              /\ GetQueueOrderTimestamp(obj') = obj'.CreationTimestamp
              /\ LET i == FindStatusCondition(obj.Conditions, WorkloadEvicted)
                     j == FindStatusCondition(obj'.Conditions, WorkloadEvicted)
                 IN  IF i = 0 THEN j = 0
                     ELSE /\ j # 0
                          /\ obj'.Conditions[j].Status = "False"
                          /\ obj'.Conditions[j].Reason = obj.Conditions[i].Reason
       /\ (HasEvictedTrue(obj') /\ ~HasEvictedTrue(obj)) => DoSetEvicted
       /\ (EvictedAndCleared(obj) /\ ~EvictedAndCleared(obj')) => DoSetAdmission]_vars

\* admitted again after an eviction on the PodsReady timeout that came after
\* the creation: the Evicted condition is False and the queue-order timestamp
\* is the creation timestamp
C37_Witness ==
    /\ obj.Admission.set
    /\ IsAdmitted(obj)
    /\ \E i \in 1..Len(obj.Conditions) :
          /\ obj.Conditions[i].Type = WorkloadEvicted
          /\ obj.Conditions[i].Status = "False"
          /\ obj.Conditions[i].Reason = WorkloadEvictedByPodsReadyTimeout
          /\ obj.Conditions[i].LastTransitionTime > obj.CreationTimestamp
    /\ GetQueueOrderTimestamp(obj) = obj.CreationTimestamp

----------------------------------------------------------------------------
(* Properties of the order in which a Go map of requests is visited *)

\* what an assignment says of flavors and modes: for every pod set the flavor
\* and mode of each resource and the pod set's mode, and the mode of the whole
FlavorsAndModes(a) ==
    [podSets |-> [i \in 1..Len(a.PodSets) |->
                     [flavors |-> NamesAndModes(a.PodSets[i]),
                      mode |-> psRepresentativeMode(a.PodSets[i])]],
     mode |-> RepresentativeMode(a)]

\* C38: the flavors and modes of the assignment AssignFlavors returns are
\* those of the assignment it returns for the same workload, snapshot and
\* catalogue under any other order of visiting the requested resources, in
\* the loop of AssignFlavors and in that of findFlavorForResourceGroup.
C38_VisitingOrderDoesNotMatter ==
    AssignDone =>
        \A o \in Orders(wl, cq) :
            FlavorsAndModes(AssignFlavors(wl, resourceFlavors, cq, o))
                = FlavorsAndModes(assignment)

\* a pod set requests cpu, for which a flavor fits, and memory, which no
\* resource group covers: whichever is visited first, it has no flavors
C38_Witness ==
    /\ AssignDone
    /\ Cardinality(Orders(wl, cq)) > 1
    /\ Len(cq.ResourceGroups) = 1
    /\ DOMAIN assignment.PodSets[1].Requests = {"cpu", "memory"}
    /\ Uncovered(assignment.PodSets[1]) = {"memory"}
    /\ ModeOnFlavor(1, cq.ResourceGroups[1], 1) = Fit
    /\ DOMAIN assignment.PodSets[1].Flavors = {}
    /\ RepresentativeMode(assignment) = NoFit

----------------------------------------------------------------------------
(* Properties of ApplyAdmissionStatus *)

\* the conditions of a workload whose type the admission patch manages, and
\* those of the other types, each as a set
ManagedConditionsOf(w) ==
    {w.Conditions[i] : i \in {j \in 1..Len(w.Conditions) :
                                 w.Conditions[j].Type \in {WorkloadAdmitted, WorkloadEvicted}}}

OtherConditionsOf(w) ==
    {w.Conditions[i] : i \in {j \in 1..Len(w.Conditions) :
                                 w.Conditions[j].Type \notin {WorkloadAdmitted, WorkloadEvicted}}}

\* C39: the patch of ApplyAdmissionStatus carries the UID, name, namespace
\* and generation of the workload, its admission and its Admitted and Evicted
\* conditions, no other condition, and the resourceVersion exactly when
\* strict; applying it leaves the conditions of other types on the stored
\* workload as they are; a strict patch of a workload that was modified since
\* it was read is rejected and the stored workload left unchanged; a patch
\* that is not rejected stores the admission and the two conditions.
C39_AdmissionPatchFrame ==
    [][CallApplyAdmissionStatus =>
          LET stored == workloads[StoredName]
              after == workloads'[StoredName]
              out == patchOut'
          IN  /\ out.patch.UID = obj.UID
              /\ out.patch.Name = obj.Name
              /\ out.patch.Namespace = obj.Namespace
              /\ out.patch.Generation = obj.Generation
              /\ out.patch.Admission = obj.Admission
              /\ OtherConditionsOf(out.patch) = {}
              /\ ManagedConditionsOf(out.patch) = ManagedConditionsOf(obj)
              /\ Len(out.patch.Conditions) = Cardinality(ManagedConditionsOf(obj))
              /\ out.patch.ResourceVersion =
                     (IF out.strict THEN obj.ResourceVersion ELSE NoResourceVersion)
              /\ OtherConditionsOf(after) = OtherConditionsOf(stored)
              /\ (out.strict /\ stored.ResourceVersion # obj.ResourceVersion) =>
                     out.err /\ after = stored
              /\ out.err => after = stored
              /\ ~out.err =>
                     /\ after.Admission = obj.Admission
                     /\ ManagedConditionsOf(after) = ManagedConditionsOf(obj)]_vars

\* the job controller set PodsReady=True after the controller read the
\* workload; the controller admitted its copy, which carries no PodsReady,
\* and applied it without strict: the stored workload is admitted and keeps
\* PodsReady=True
C39_Witness ==
    /\ patchOut.done
    /\ ~patchOut.strict
    /\ ~patchOut.err
    /\ obj.ResourceVersion + 1 < workloads[StoredName].ResourceVersion
    /\ OtherConditionsOf(obj) = {}
    /\ workloads[StoredName].Admission.set
    /\ IsAdmitted(workloads[StoredName])
    /\ IsStatusConditionTrue(workloads[StoredName].Conditions, WorkloadPodsReady)

====
